---- MODULE Spec2Model ----
(***************************************************************************)
(* A model of idrd, the dynamic-DNS agent: the provider selector           *)
(* (ip.DynamicProvider), the Cloudflare synchronizer                       *)
(* (dns.CloudflareUpdater), the monitoring loop (monitorIP), the web       *)
(* handlers that replace the configuration, and the event hub.             *)
(*                                                                         *)
(* The specifications share the variables:                                 *)
(*   SpecSel     DynamicProvider.GetIP over bounded provider lists         *)
(*   SpecSelValid  the same over the lists ValidateConfig accepts          *)
(*   SpecDNS     CloudflareUpdater.UpdateIP, one remote call per step      *)
(*   SpecRepeat  UpdateIP invoked repeatedly over one zone                 *)
(*   SpecMon     monitorIP, calling GetIP and UpdateIP                     *)
(*   SpecMonFair SpecMon with monitorIP's goroutine scheduled fairly       *)
(*   SpecMonFail monitorIP with operations that use up their attempts      *)
(*   SpecSched   monitorIP beside handleUpdateConfig and                   *)
(*               handleImportConfig                                        *)
(*   SpecConfigFail  handleUpdateConfig's goroutine and a DNS service      *)
(*               that fails                                                *)
(*   SpecSignal  monitorIP and the configuration-change signal             *)
(*   SpecHub     Hub.Run, Hub.Broadcast and the subscribers' pumps         *)
(*   SpecHubFair SpecHub with Run and the pumps scheduled fairly           *)
(***************************************************************************)
EXTENDS Integers, Sequences, FiniteSets, TLC

(***************************************************************************)
(* Bounds of the model.                                                    *)
(***************************************************************************)
\* longest provider list drawn for the selector
MaxProviders == 3

\* addresses a provider may discover / a record may hold
IPs == {"203.0.113.1", "203.0.113.2"}

(***************************************************************************)
(* Configuration (config.AppConfig held by config.SafeConfig).             *)
(***************************************************************************)
VARIABLES
    cfg,          \* the configuration SafeConfig holds
    saved,        \* the configuration SaveConfig has stored in the database
    selOuts,      \* selector: what each provider returned in the last GetIP call
    selRes,       \* selector: the result of the last GetIP call
    remote,       \* the A record the DNS provider holds at each name
    dnsUpdates,   \* audit sink: the dns_updates table
    u,            \* UpdateIP: the invocation of each caller
    failsLeft,    \* remote failures the run may still inject
    expiriesLeft, \* deadline expiries the run may still inject
    callsLeft,    \* UpdateIP invocations the manual trigger may still start
    m,            \* monitorIP: locals and position
    ipHistory,    \* audit sink: the ip_history table
    errorLogs,    \* audit sink: the error_logs table
    srv,          \* Server: CurrentIP, CurrentSource, LastCheckTime
    cfgChan,      \* Server.ConfigUpdateChan: signals pending (capacity 1)
    sigLog,       \* signals posted since the last receive, where monitorIP was
                  \* when the last one to fill the channel was posted, the
                  \* requests refused and the configuration requests left
    h,            \* the web handlers that touch the server's address: position
                  \* and locals of handleUpdateConfig's goroutine ("config")
    hubIn,        \* events handed to Hub.Broadcast
    hub,          \* Hub.Run: its position, the registry, the event in dispatch
    subs          \* the subscribers (Client): connection state and send queue

selVars == <<selOuts, selRes>>
dnsVars == <<remote, dnsUpdates, u, failsLeft, expiriesLeft, callsLeft>>
hubVars == <<hubIn, hub, subs>>
webVars == <<cfgChan, sigLog, h>>
monVars == <<m, ipHistory, errorLogs, srv, webVars, hubVars>>
vars == <<cfg, saved, selOuts, selRes, remote, dnsUpdates, u, failsLeft, expiriesLeft, callsLeft,
          m, ipHistory, errorLogs, srv, cfgChan, sigLog, h, hubIn, hub, subs>>

\* IPProviderConfig.Type values: two recognised kinds and one kind the
\* selector's switch does not know ("http" is listed in the struct comment,
\* the switch has only a TODO for it).
ProviderTypes == {"stun", "router_ssh", "http"}

IPProviderConfig == [Type : ProviderTypes, Enabled : BOOLEAN]

RECURSIVE SeqsUpTo(_, _)
SeqsUpTo(S, n) ==
    IF n = 0 THEN {<<>>}
    ELSE LET shorter == SeqsUpTo(S, n - 1)
         IN  shorter \cup {Append(s, x) : s \in {t \in shorter : Len(t) = n - 1}, x \in S}

(***************************************************************************)
(* Address providers.  Each returns (ip, source, err); err = "" is nil.    *)
(***************************************************************************)
\* STUNProvider.GetIP: every failure returns ("", "", err); success returns
\* a non-empty address with the source label "STUN".
STUNGetIP ==
    {[ip |-> a, source |-> "STUN", err |-> ""] : a \in IPs}
    \cup {[ip |-> "", source |-> "", err |-> e] : e \in {"stun: request failed", "stun: no address"}}

\* RouterProvider.GetIP: every failure returns ("", "", err); success returns
\* the parsed address with the source label "ROUTER_SSH".
RouterGetIP ==
    {[ip |-> a, source |-> "ROUTER_SSH", err |-> ""] : a \in IPs}
    \cup {[ip |-> "", source |-> "", err |-> e] : e \in {"ssh: dial failed", "ssh: no address"}}

\* what a provider that is never constructed "returns"
NotInvoked == [ip |-> "", source |-> "", err |-> "not invoked"]

\* The outcomes p.GetIP() can have for the provider built from pCfg.
ProviderGetIP(pCfg) ==
    IF ~pCfg.Enabled THEN {NotInvoked}
    ELSE IF pCfg.Type = "stun" THEN STUNGetIP
    ELSE IF pCfg.Type = "router_ssh" THEN RouterGetIP
    ELSE {NotInvoked}

\* One outcome per declared provider: what it returns if it is called.
RECURSIVE OutcomesUpTo(_, _)
OutcomesUpTo(provs, n) ==
    IF n = 0 THEN {<<>>}
    ELSE {Append(o, x) : o \in OutcomesUpTo(provs, n - 1), x \in ProviderGetIP(provs[n])}

ProviderOutcomes(provs) == OutcomesUpTo(provs, Len(provs))

(***************************************************************************)
(* DynamicProvider.GetIP.  The result carries, beside (ip, source, err),   *)
(* the accumulated error list and the providers that were called.          *)
(***************************************************************************)
ErrAllFailed == "all enabled providers failed"
ErrNoneEnabled == "no provider enabled"

\* fmt.Sprintf("[%s] 获取失败: %v", pCfg.Type, err)
ErrMsg(pCfg, err) == [label |-> pCfg.Type, err |-> err]

RECURSIVE GetIPLoop(_, _, _, _, _)
GetIPLoop(provs, outs, i, errors, invoked) ==
    IF i > Len(provs)
    THEN IF Len(errors) > 0
         THEN [ip |-> "", source |-> "", err |-> ErrAllFailed,
               errors |-> errors, invoked |-> invoked]
         ELSE [ip |-> "", source |-> "", err |-> ErrNoneEnabled,
               errors |-> errors, invoked |-> invoked]
    ELSE LET pCfg == provs[i] IN
         IF ~pCfg.Enabled
         THEN GetIPLoop(provs, outs, i + 1, errors, invoked)
         ELSE IF pCfg.Type \notin {"stun", "router_ssh"}
         THEN GetIPLoop(provs, outs, i + 1, errors, invoked)
         ELSE LET r == outs[i] IN
              IF r.err = "" /\ r.ip # ""
              THEN [ip |-> r.ip,
                    source |-> IF r.source = "" THEN pCfg.Type ELSE r.source,
                    err |-> "", errors |-> errors, invoked |-> Append(invoked, i)]
              ELSE IF r.err # ""
              THEN GetIPLoop(provs, outs, i + 1,
                             Append(errors, ErrMsg(pCfg, r.err)), Append(invoked, i))
              ELSE GetIPLoop(provs, outs, i + 1, errors, Append(invoked, i))

\* A plausible slip: the loop does not return on the first success, so the
\* last succeeding provider wins.
RECURSIVE GetIPLastWins(_, _, _, _, _, _)
GetIPLastWins(provs, outs, i, errors, invoked, best) ==
    IF i > Len(provs)
    THEN IF best.ip # "" THEN [best EXCEPT !.errors = errors, !.invoked = invoked]
         ELSE [ip |-> "", source |-> "",
               err |-> IF Len(errors) > 0 THEN ErrAllFailed ELSE ErrNoneEnabled,
               errors |-> errors, invoked |-> invoked]
    ELSE LET pCfg == provs[i] IN
         IF ~pCfg.Enabled \/ pCfg.Type \notin {"stun", "router_ssh"}
         THEN GetIPLastWins(provs, outs, i + 1, errors, invoked, best)
         ELSE LET r == outs[i] IN
              IF r.err = ""
              THEN GetIPLastWins(provs, outs, i + 1, errors, Append(invoked, i),
                                 [ip |-> r.ip, source |-> r.source, err |-> "",
                                  errors |-> errors, invoked |-> invoked])
              ELSE GetIPLastWins(provs, outs, i + 1,
                                 Append(errors, ErrMsg(pCfg, r.err)),
                                 Append(invoked, i), best)

GetIP_LastWins(provs, outs) ==
    GetIPLastWins(provs, outs, 1, <<>>, <<>>,
                  [ip |-> "", source |-> "", err |-> "", errors |-> <<>>, invoked |-> <<>>])

\* A plausible slip: the error list is built newest-first.
RECURSIVE GetIPPrepend(_, _, _, _, _)
GetIPPrepend(provs, outs, i, errors, invoked) ==
    IF i > Len(provs)
    THEN [ip |-> "", source |-> "",
          err |-> IF Len(errors) > 0 THEN ErrAllFailed ELSE ErrNoneEnabled,
          errors |-> errors, invoked |-> invoked]
    ELSE LET pCfg == provs[i] IN
         IF ~pCfg.Enabled \/ pCfg.Type \notin {"stun", "router_ssh"}
         THEN GetIPPrepend(provs, outs, i + 1, errors, invoked)
         ELSE LET r == outs[i] IN
              IF r.err = ""
              THEN [ip |-> r.ip, source |-> r.source, err |-> "",
                    errors |-> errors, invoked |-> Append(invoked, i)]
              ELSE GetIPPrepend(provs, outs, i + 1,
                                <<ErrMsg(pCfg, r.err)>> \o errors, Append(invoked, i))

GetIP_Prepend(provs, outs) == GetIPPrepend(provs, outs, 1, <<>>, <<>>)

\* A plausible slip: the label is always the configured kind of the provider
\* that answered.
GetIP_KindLabel(provs, outs) ==
    LET r == GetIPLoop(provs, outs, 1, <<>>, <<>>)
    IN  IF r.err = "" THEN [r EXCEPT !.source = provs[r.invoked[Len(r.invoked)]].Type]
        ELSE r

\* A plausible slip: one failure for both ways of ending without an address.
GetIP_OneFailure(provs, outs) ==
    LET r == GetIPLoop(provs, outs, 1, <<>>, <<>>)
    IN  IF r.err = ErrAllFailed THEN [r EXCEPT !.err = ErrNoneEnabled] ELSE r

GetIP(provs, outs) == GetIPLoop(provs, outs, 1, <<>>, <<>>)

(***************************************************************************)
(* The selector as a state machine: each call re-attempts discovery from   *)
(* scratch with fresh provider outcomes.                                   *)
(***************************************************************************)
NotCalled ==
    [ip |-> "", source |-> "", err |-> "not called", errors |-> <<>>, invoked |-> <<>>]

CallGetIP ==
    \E outs \in ProviderOutcomes(cfg.IPProviders) :
        /\ selOuts' = outs
        /\ selRes' = GetIP(cfg.IPProviders, outs)
        /\ UNCHANGED <<cfg, saved, dnsVars, monVars>>

(***************************************************************************)
(* The Cloudflare synchronizer (dns/cloudflare.go).                        *)
(***************************************************************************)
\* retry constants, durations in seconds
maxRetries == 3
initialBackoff == 1
maxBackoff == 10

\* remote failures injected in one run of the model
MaxFailures == 4
\* UpdateIP invocations in one run of SpecDNS
MaxCalls == 1
\* UpdateIP invocations in one run of SpecRepeat
MaxRepeatCalls == 2
\* deadline expiries in one run of the model
MaxExpiries == 1

Min(a, b) == IF a < b THEN a ELSE b

\* fullDomain: "@" (and "") map to the bare zone name
FullDomain(record, zoneName) ==
    IF record # "@" /\ record # "" THEN record \o "." \o zoneName ELSE zoneName

\* backoff = min(backoff*2, maxBackoff), a mutant that never grows first
NextBackoff_Constant(backoff) == backoff

NextBackoff(backoff) == Min(backoff * 2, maxBackoff)

\* the loop condition attempt <= maxRetries, seen after a failed attempt:
\* another attempt follows iff attempt < maxRetries.  The mutant retries once more.
CanRetry_OneMore(attempt) == attempt < maxRetries + 1

CanRetry(attempt) == attempt < maxRetries

\* updateRecord's decision after listing: create, skip or update.
\* The mutant drops the "content already equal" branch.
AfterList_NoSkip(found, ip) ==
    IF found.ID = "" THEN "create" ELSE "update"

AfterList(found, ip) ==
    IF found.ID = "" THEN "create"
    ELSE IF found.Content = ip THEN "skip"
    ELSE "update"

NoRecord == [ID |-> "", Content |-> "", Proxied |-> FALSE]

\* cloudflare.CreateDNSRecordParams of updateRecord
CreateParams(domain, ip) ==
    [ID |-> domain, Content |-> ip, Proxied |-> FALSE]

\* cloudflare.UpdateDNSRecordParams of updateRecord; the mutant resets the
\* proxied flag as the create call does.
UpdateParams_Unproxied(record, ip) ==
    [ID |-> record.ID, Content |-> ip, Proxied |-> FALSE]

UpdateParams(record, ip) ==
    [ID |-> record.ID, Content |-> ip, Proxied |-> record.Proxied]

\* The accounts of the model's DNS configurations.
HomeAccount ==
    [Name |-> "home", APIToken |-> "token-home-0123456789",
     Zones |-> << [ZoneName |-> "example.com", Records |-> <<"@", "www">>],
                  [ZoneName |-> "example.org", Records |-> <<"vpn">>] >>]
OffAccount ==
    [Name |-> "off", APIToken |-> "",
     Zones |-> << [ZoneName |-> "example.net", Records |-> <<"@">>] >>]
WorkAccount ==
    [Name |-> "work", APIToken |-> "token-work-0123456789",
     Zones |-> << [ZoneName |-> "example.io", Records |-> <<"*.lab">>] >>]

\* the same account with one zone of one record, and of two records
HomeRoot == [HomeAccount EXCEPT !.Zones = <<[ZoneName |-> "example.com", Records |-> <<"@">>]>>]
HomePair == [HomeAccount EXCEPT !.Zones = <<[ZoneName |-> "example.com", Records |-> <<"@", "www">>]>>]

\* every (account, zone, record) position of a list of accounts
RecordPositions(accounts) ==
    UNION {UNION {{<<a, z, r>> : r \in 1..Len(accounts[a].Zones[z].Records)} :
                    z \in 1..Len(accounts[a].Zones)} :
             a \in 1..Len(accounts)}

DomainAt(accounts, p) ==
    FullDomain(accounts[p[1]].Zones[p[2]].Records[p[3]], accounts[p[1]].Zones[p[2]].ZoneName)

AllAccounts == <<HomeAccount, OffAccount, WorkAccount>>

\* the names the remote DNS provider holds records for
Names == {DomainAt(AllAccounts, p) : p \in RecordPositions(AllAccounts)}

(***************************************************************************)
(* UpdateIP as a process.  UpdateIP is invoked by monitorIP, by the        *)
(* goroutine handleUpdateConfig starts and by the goroutine                *)
(* handleTriggerDNSUpdate starts; u[c] is the state of caller c's          *)
(* invocation: its position in the account/zone/record loops, the retry    *)
(* loop's local variables, and what the invocation has done so far.        *)
(***************************************************************************)
Callers == {"monitor", "config", "trigger"}

NoOp ==
    [call |-> 0, kind |-> "", name |-> "", ok |-> FALSE, err |-> "",
     tries |-> <<>>, waits |-> <<>>, calls |-> <<>>]

Idle ==
    [pc |-> "idle", call |-> 0, ip |-> "", prevIP |-> "", accounts |-> <<>>,
     a |-> 0, z |-> 0, r |-> 0,
     tries |-> <<>>, backoff |-> initialBackoff, waits |-> <<>>, calls |-> <<>>,
     ctxDone |-> FALSE, found |-> NoRecord,
     attempted |-> {}, ret |-> "",
     remote0 |-> [n \in Names |-> NoRecord], last |-> NoOp]

\* the (account, zone) pairs UpdateIP's loops visit: accounts with an empty
\* APIToken are skipped.  The mutants visit every account, and none after
\* the first account with an empty APIToken.
ZoneOrder_All(accounts) ==
    UNION {{<<a, z>> : z \in 1..Len(accounts[a].Zones)} : a \in 1..Len(accounts)}

ZoneOrder_StopAtEmpty(accounts) ==
    UNION {{<<a, z>> : z \in 1..Len(accounts[a].Zones)} :
             a \in {b \in 1..Len(accounts) : \A b2 \in 1..b : accounts[b2].APIToken # ""}}

ZoneOrder(accounts) ==
    UNION {{<<a, z>> : z \in 1..Len(accounts[a].Zones)} :
             a \in {b \in 1..Len(accounts) : accounts[b].APIToken # ""}}

Before(p, q) == p[1] < q[1] \/ (p[1] = q[1] /\ p[2] < q[2])

\* the zone visited after position p (<<0, 0>>: none is left)
FirstZoneAfter(accounts, p) ==
    LET later == {q \in ZoneOrder(accounts) : Before(p, q)}
    IN  IF later = {} THEN <<0, 0>>
        ELSE CHOOSE q \in later : \A q2 \in later : q2 = q \/ Before(q, q2)

CurZone(v) == v.accounts[v.a].Zones[v.z]
CurDomain(v) == FullDomain(CurZone(v).Records[v.r], CurZone(v).ZoneName)

\* entry of a retry loop: backoff := initialBackoff, attempt := 0
StartOp(v, pc) ==
    [v EXCEPT !.pc = pc, !.tries = <<>>, !.backoff = initialBackoff, !.waits = <<>>,
              !.calls = <<>>]

\* what UpdateIP returns after its loops: return nil.  The mutant returns an
\* error when an operation of the invocation has failed.
UpdateIPResult_LastError(v) ==
    IF v.last.call = v.call /\ ~v.last.ok THEN "error" ELSE "nil"

UpdateIPResult(v) == "nil"

\* mutant of the zone closure: one context for the whole invocation, an
\* expired deadline stays expired in the zones that follow
EnterZone_OneContext(v, p) ==
    IF p = <<0, 0>>
    THEN [Idle EXCEPT !.call = v.call, !.ip = v.ip, !.prevIP = v.prevIP,
                      !.accounts = v.accounts,
                      !.attempted = v.attempted, !.ret = UpdateIPResult(v),
                      !.remote0 = v.remote0, !.last = v.last]
    ELSE [StartOp(v, "zoneLookup") EXCEPT
             !.a = p[1], !.z = p[2], !.r = 0, !.found = NoRecord,
             !.attempted = @ \cup {[kind |-> "zone",
                                    name |-> v.accounts[p[1]].Zones[p[2]].ZoneName]}]

\* the closure of one zone starts with a fresh 60 s context; with no zone
\* left UpdateIP returns nil
EnterZone(v, p) ==
    IF p = <<0, 0>>
    THEN [Idle EXCEPT !.call = v.call, !.ip = v.ip, !.prevIP = v.prevIP,
                      !.accounts = v.accounts,
                      !.attempted = v.attempted, !.ret = UpdateIPResult(v),
                      !.remote0 = v.remote0, !.last = v.last]
    ELSE [StartOp(v, "zoneLookup") EXCEPT
             !.a = p[1], !.z = p[2], !.r = 0, !.ctxDone = FALSE, !.found = NoRecord,
             !.attempted = @ \cup {[kind |-> "zone",
                                    name |-> v.accounts[p[1]].Zones[p[2]].ZoneName]}]

LeaveZone(v) == EnterZone(v, FirstZoneAfter(v.accounts, <<v.a, v.z>>))

\* the record loop of one zone: record r, or the end of the zone
EnterRecord(v, r) ==
    IF r > Len(CurZone(v).Records)
    THEN LeaveZone(v)
    ELSE [StartOp(v, "list") EXCEPT
             !.r = r, !.found = NoRecord,
             !.attempted = @ \cup {[kind |-> "record",
                                    name |-> FullDomain(CurZone(v).Records[r],
                                                        CurZone(v).ZoneName)]}]

\* where UpdateIP goes after a record's outcome: the next record, also after
\* a failure (continue).  The mutant leaves the zone on a failure.
AfterRecord_AbortZone(v, ok) ==
    IF ok THEN EnterRecord(v, v.r + 1) ELSE LeaveZone(v)

AfterRecord(v, ok) == EnterRecord(v, v.r + 1)

\* db.AddDNSUpdate(account.Name, newIP, "A", fullDomain, success, err).  The
\* mutant writes no row for a record that needed no create and no update.
AddDNSUpdate_OnlyChanges(c, v, success, err) ==
    IF success /\ v.calls = <<>> THEN dnsUpdates
    ELSE Append(dnsUpdates,
                [caller |-> c, call |-> v.call, account |-> v.accounts[v.a].Name, ip |-> v.ip,
                 domain |-> CurDomain(v), success |-> success, err |-> err])

AddDNSUpdate(c, v, success, err) ==
    Append(dnsUpdates,
           [caller |-> c, call |-> v.call, account |-> v.accounts[v.a].Name, ip |-> v.ip,
            domain |-> CurDomain(v), success |-> success, err |-> err])

\* the retried operation that just returned, as its caller saw it
FinishOp(v, kind, name, ok, err) ==
    [v EXCEPT !.last = [call |-> v.call, kind |-> kind, name |-> name, ok |-> ok,
                        err |-> err, tries |-> v.tries, waits |-> v.waits,
                        calls |-> v.calls]]

\* UpdateIP(newIP): read the configuration snapshot and enter the first zone
BeginUpdateIP(c, newIP) ==
    LET v == [Idle EXCEPT !.call = u[c].call + 1, !.ip = newIP, !.prevIP = u[c].ip,
                          !.accounts = cfg.CloudflareAccounts,
                          !.remote0 = remote]
    IN  /\ u[c].pc = "idle"
        /\ u' = [u EXCEPT ![c] = EnterZone(v, FirstZoneAfter(v.accounts, <<0, 0>>))]
        /\ UNCHANGED <<remote, dnsUpdates, failsLeft, expiriesLeft>>

\* getZoneIDWithRetry: one api.ZoneIDByName call (it takes no context)
ZoneLookup(c) ==
    /\ u[c].pc = "zoneLookup"
    /\ \E ok \in BOOLEAN :
        LET v == [u[c] EXCEPT !.tries = Append(@, ok)]
            name == CurZone(v).ZoneName
        IN  /\ ok \/ failsLeft > 0
            /\ failsLeft' = IF ok THEN failsLeft ELSE failsLeft - 1
            /\ u' = [u EXCEPT ![c] =
                       IF ok THEN EnterRecord(FinishOp(v, "zone", name, TRUE, ""), 1)
                       ELSE IF CanRetry(Len(u[c].tries)) THEN [v EXCEPT !.pc = "zoneWait"]
                       ELSE LeaveZone(FinishOp(v, "zone", name, FALSE, "retries exhausted"))]
    /\ UNCHANGED <<remote, dnsUpdates, expiriesLeft, callsLeft>>
    /\ UNCHANGED <<cfg, saved, selVars, monVars>>

\* getZoneIDWithRetry: select { <-ctx.Done() / <-time.After(backoff) }
ZoneWait(c) ==
    /\ u[c].pc = "zoneWait"
    /\ u' = [u EXCEPT ![c] =
               IF u[c].ctxDone
               THEN LeaveZone(FinishOp(u[c], "zone", CurZone(u[c]).ZoneName, FALSE, "deadline"))
               ELSE [u[c] EXCEPT !.pc = "zoneLookup", !.waits = Append(@, u[c].backoff),
                                 !.backoff = NextBackoff(u[c].backoff)]]
    /\ UNCHANGED <<remote, dnsUpdates, failsLeft, expiriesLeft, callsLeft>>
    /\ UNCHANGED <<cfg, saved, selVars, monVars>>

\* the zone's context.WithTimeout(ctx, 60 s) expires
DeadlineExpires(c) ==
    /\ u[c].pc # "idle"
    /\ ~u[c].ctxDone
    /\ expiriesLeft > 0
    /\ expiriesLeft' = expiriesLeft - 1
    /\ u' = [u EXCEPT ![c].ctxDone = TRUE]
    /\ UNCHANGED <<remote, dnsUpdates, failsLeft, callsLeft>>
    /\ UNCHANGED <<cfg, saved, selVars, monVars>>

\* a failed attempt of updateRecord inside updateRecordWithRetry; v is the
\* invocation after the attempt, attempt its loop index
RecordAttemptFailed(c, v, attempt) ==
    IF CanRetry(attempt)
    THEN /\ u' = [u EXCEPT ![c] = [v EXCEPT !.pc = "recWait"]]
         /\ UNCHANGED dnsUpdates
    ELSE /\ u' = [u EXCEPT ![c] =
                    AfterRecord(FinishOp(v, "record", CurDomain(v), FALSE, "retries exhausted"),
                                FALSE)]
         /\ dnsUpdates' = AddDNSUpdate(c, v, FALSE, "retries exhausted")

\* updateRecord returned nil: UpdateIP records the success
RecordSucceeded(c, v) ==
    /\ u' = [u EXCEPT ![c] = AfterRecord(FinishOp(v, "record", CurDomain(v), TRUE, ""), TRUE)]
    /\ dnsUpdates' = AddDNSUpdate(c, v, TRUE, "")

\* updateRecord: api.ListDNSRecords(ctx, zone, {Name: domain, Type: "A"})
ListRecords(c) ==
    /\ u[c].pc = "list"
    /\ \E ok \in BOOLEAN :
        /\ ok => ~u[c].ctxDone
        /\ ok \/ u[c].ctxDone \/ failsLeft > 0
        /\ failsLeft' = IF ok \/ u[c].ctxDone THEN failsLeft ELSE failsLeft - 1
        /\ IF ~ok
           THEN RecordAttemptFailed(c, [u[c] EXCEPT !.tries = Append(@, FALSE)],
                                    Len(u[c].tries))
           ELSE LET found == remote[CurDomain(u[c])]
                    next == AfterList(found, u[c].ip)
                IN  IF next = "skip"
                    THEN RecordSucceeded(c, [u[c] EXCEPT !.tries = Append(@, TRUE),
                                                         !.found = found])
                    ELSE /\ u' = [u EXCEPT ![c].pc = next, ![c].found = found]
                         /\ UNCHANGED dnsUpdates
    /\ UNCHANGED <<remote, expiriesLeft, callsLeft>>
    /\ UNCHANGED <<cfg, saved, selVars, monVars>>

\* a create or update call as the remote provider saw it
ApiCall(v, op, params, ok) ==
    [op |-> op, name |-> CurDomain(v), id |-> params.ID, content |-> params.Content,
     proxied |-> params.Proxied, ok |-> ok]

\* a mutating call of updateRecord: with the context expired the client
\* returns the context's error and sends nothing
MutatingCall(c, op, params) ==
    \E ok \in BOOLEAN :
        LET v == [u[c] EXCEPT !.tries = Append(@, ok),
                              !.calls = IF u[c].ctxDone THEN @
                                        ELSE Append(@, ApiCall(u[c], op, params, ok))]
        IN
        /\ ok => ~u[c].ctxDone
        /\ ok \/ u[c].ctxDone \/ failsLeft > 0
        /\ failsLeft' = IF ok \/ u[c].ctxDone THEN failsLeft ELSE failsLeft - 1
        /\ IF ok
           THEN /\ remote' = [remote EXCEPT ![CurDomain(v)] = params]
                /\ RecordSucceeded(c, v)
           ELSE /\ UNCHANGED remote
                /\ RecordAttemptFailed(c, v, Len(u[c].tries))
        /\ UNCHANGED <<expiriesLeft, callsLeft>>

\* updateRecord: api.CreateDNSRecord
CreateRecord(c) ==
    /\ u[c].pc = "create"
    /\ MutatingCall(c, "create", CreateParams(CurDomain(u[c]), u[c].ip))
    /\ UNCHANGED <<cfg, saved, selVars, monVars>>

\* updateRecord: api.UpdateDNSRecord on records[0]
UpdateRecord(c) ==
    /\ u[c].pc = "update"
    /\ MutatingCall(c, "update", UpdateParams(u[c].found, u[c].ip))
    /\ UNCHANGED <<cfg, saved, selVars, monVars>>

\* updateRecordWithRetry: select { <-ctx.Done() / <-time.After(backoff) }
RecWait(c) ==
    /\ u[c].pc = "recWait"
    /\ IF u[c].ctxDone
       THEN /\ u' = [u EXCEPT ![c] =
                       AfterRecord(FinishOp(u[c], "record", CurDomain(u[c]), FALSE, "deadline"),
                                   FALSE)]
            /\ dnsUpdates' = AddDNSUpdate(c, u[c], FALSE, "deadline")
       ELSE /\ u' = [u EXCEPT ![c] =
                       [u[c] EXCEPT !.pc = "list", !.waits = Append(@, u[c].backoff),
                                    !.backoff = NextBackoff(u[c].backoff)]]
            /\ UNCHANGED dnsUpdates
    /\ UNCHANGED <<remote, failsLeft, expiriesLeft, callsLeft>>
    /\ UNCHANGED <<cfg, saved, selVars, monVars>>

(***************************************************************************)
(* The monitoring loop (monitorIP) and the server state it writes.         *)
(***************************************************************************)
\* loop iterations of monitorIP in one run of the model
MaxCycles == 2
\* remote failures injected in one run of SpecMon
MaxMonFailures == 1

\* Intervals.IPCheck is a string such as "45s"; the model keeps its number
\* and its unit apart.  NoInterval is the empty string.
NoInterval == [num |-> 0, unit |-> ""]

\* time.ParseDuration, in seconds: it knows "s", "m" and "h", not "d" or "w"
ParseDuration(s) ==
    IF s.unit = "s" THEN [ok |-> TRUE, d |-> s.num]
    ELSE IF s.unit = "m" THEN [ok |-> TRUE, d |-> s.num * 60]
    ELSE IF s.unit = "h" THEN [ok |-> TRUE, d |-> s.num * 3600]
    ELSE [ok |-> FALSE, d |-> 0]

\* monitorIP's checkInterval for one configuration snapshot
CheckInterval(c) ==
    IF c.IPCheck = NoInterval \/ ~ParseDuration(c.IPCheck).ok
    THEN 300
    ELSE LET d == ParseDuration(c.IPCheck).d
             minInterval ==
                 IF \E i \in 1..Len(c.IPProviders) :
                        /\ c.IPProviders[i].Enabled
                        /\ c.IPProviders[i].Type \in {"router_ssh", "interface"}
                 THEN 1 ELSE 30
         IN  IF d < minInterval THEN minInterval ELSE d

\* parseExtendedDuration, in seconds: time.ParseDuration first, then days
\* and weeks
ParseExtendedDuration(s) ==
    IF s.unit = "" THEN [ok |-> FALSE, d |-> 0]
    ELSE IF ParseDuration(s).ok THEN ParseDuration(s)
    ELSE IF s.unit = "d" THEN [ok |-> TRUE, d |-> s.num * 86400]
    ELSE IF s.unit = "w" THEN [ok |-> TRUE, d |-> s.num * 604800]
    ELSE [ok |-> FALSE, d |-> 0]

\* ValidateConfig on the parts of a configuration the model keeps: the
\* ip_check interval, every provider, every account with its zones and
\* records (the server section, the other two intervals, the provider
\* properties and the shape of the names are not modelled)

ValidateConfig(c) ==
    LET validateIntervalsConfig ==
            c.IPCheck # NoInterval =>
                /\ ParseExtendedDuration(c.IPCheck).ok
                /\ ParseExtendedDuration(c.IPCheck).d >= 1
        validateIPProvider(p) ==
            /\ p.Type # ""
            /\ p.Enabled => p.Type \in {"stun", "router_ssh"}
        validateZone(z) ==
            /\ z.ZoneName # ""
            /\ Len(z.Records) > 0
            /\ \A i \in 1..Len(z.Records) : z.Records[i] # ""
        validateCloudflareAccount(a) ==
            /\ a.Name # ""
            /\ a.APIToken \notin {"***", ""} => Len(a.APIToken) >= 20
            /\ Len(a.Zones) > 0
            /\ \A i \in 1..Len(a.Zones) : validateZone(a.Zones[i])
    IN  /\ validateIntervalsConfig
        /\ \A i \in 1..Len(c.IPProviders) : validateIPProvider(c.IPProviders[i])
        /\ \A i \in 1..Len(c.CloudflareAccounts) :
                validateCloudflareAccount(c.CloudflareAccounts[i])

\* SaveConfig's result, TRUE for nil: it validates before its first write.
\* The mutant writes whatever it is given.
SaveConfig_Unchecked(c) == TRUE

SaveConfig(c) == ValidateConfig(c)

\* Server.BroadcastIPChange hands this event to Hub.Broadcast
BroadcastIPChange(newIP, source) ==
    [Type |-> "ip_change", Data |-> [ip |-> newIP, source |-> source]]

EmptyCfg == [IPProviders |-> <<>>, CloudflareAccounts |-> <<>>, IPCheck |-> NoInterval]

\* the test currentIP != lastIP; the mutant treats every discovery as a change
IPChanged_Always(currentIP, lastIP) == TRUE

IPChanged(currentIP, lastIP) == currentIP # lastIP

\* m: monitorIP's locals (lastIP, cfg, checkInterval, currentIP, source), its
\* position, what the current iteration has done so far, whether the timer of
\* the current wait is due, what ended the last wait, and the observation
\* before the current one, and the provider list GetIP read
MonitorStart ==
    [pc |-> "seed", lastIP |-> "", cfg |-> EmptyCfg, checkInterval |-> 0,
     currentIP |-> "", source |-> "", cycle |-> 0,
     changed |-> FALSE, prevLast |-> "", hist |-> 0, upd |-> <<>>, hubMark |-> 0,
     timerDue |-> FALSE, woke |-> "", prevObs |-> [ip |-> "", source |-> ""],
     provs |-> <<>>]

\* database.GetRecentIPHistory(1): ORDER BY timestamp DESC LIMIT 1, the rows
\* of the history limited to the newest.  The mutant orders them ascending.
GetRecentIPHistory_Oldest(history) ==
    IF Len(history) > 0 THEN <<history[1]>> ELSE <<>>

GetRecentIPHistory(history) ==
    IF Len(history) > 0 THEN <<history[Len(history)]>> ELSE <<>>

\* lastIP is seeded from database.GetRecentIPHistory(1)
MonSeed ==
    /\ m.pc = "seed"
    /\ m' = [m EXCEPT !.pc = "top",
                      !.lastIP = IF Len(GetRecentIPHistory(ipHistory)) > 0
                                 THEN GetRecentIPHistory(ipHistory)[1].ip ELSE ""]
    /\ UNCHANGED <<cfg, saved, ipHistory, errorLogs, srv, webVars, hubVars>>
    /\ UNCHANGED <<selVars, dnsVars>>

\* top of the loop: read the snapshot, compute the interval, SetLastCheck.
\* The mutant leaves the stamp to the cycles that find an address.
MonTop_NoStamp ==
    /\ m.pc = "top"
    /\ m.cycle < MaxCycles
    /\ m' = [m EXCEPT !.pc = "getip", !.cfg = cfg, !.checkInterval = CheckInterval(cfg),
                      !.cycle = @ + 1, !.changed = FALSE, !.prevLast = m.lastIP,
                      !.hist = 0, !.upd = <<>>, !.hubMark = Len(hubIn)]
    /\ UNCHANGED <<cfg, saved, ipHistory, errorLogs, srv, webVars, hubVars>>
    /\ UNCHANGED <<selVars, dnsVars>>

MonTop ==
    /\ m.pc = "top"
    /\ m.cycle < MaxCycles
    /\ m' = [m EXCEPT !.pc = "getip", !.cfg = cfg, !.checkInterval = CheckInterval(cfg),
                      !.cycle = @ + 1, !.changed = FALSE, !.prevLast = m.lastIP,
                      !.hist = 0, !.upd = <<>>, !.hubMark = Len(hubIn)]
    /\ srv' = [srv EXCEPT !.LastCheckTime = m.cycle + 1]
    /\ UNCHANGED <<cfg, saved, ipHistory, errorLogs, webVars, hubVars>>
    /\ UNCHANGED <<selVars, dnsVars>>

\* provider.GetIP(); on an error AddErrorLog and the 30 s sleep follow
MonGetIP ==
    /\ m.pc = "getip"
    /\ \E outs \in ProviderOutcomes(cfg.IPProviders) :
        LET res == GetIP(cfg.IPProviders, outs) IN
        IF res.err # ""
        THEN /\ errorLogs' = Append(errorLogs, [level |-> "error", cycle |-> m.cycle])
             /\ m' = [m EXCEPT !.pc = "cooldown"]
        ELSE /\ m' = [m EXCEPT !.pc = "setip", !.currentIP = res.ip, !.source = res.source,
                               !.prevObs = [ip |-> m.currentIP, source |-> m.source],
                               !.provs = cfg.IPProviders]
             /\ UNCHANGED errorLogs
    /\ UNCHANGED <<cfg, saved, ipHistory, srv, webVars, hubVars>>
    /\ UNCHANGED <<selVars, dnsVars>>

\* the sleep after a failed discovery, in seconds
failureCooldown == 30

\* time.Sleep(30 * time.Second); continue.  One mutant makes the sleep a
\* select on ConfigUpdateChan, another forgets the address
\* when discovery has failed, the third returns from monitorIP.
MonCooldown_Return ==
    /\ m.pc = "cooldown"
    /\ m' = [m EXCEPT !.pc = "returned"]
    /\ UNCHANGED <<cfg, saved, ipHistory, errorLogs, srv, webVars, hubVars>>
    /\ UNCHANGED <<selVars, dnsVars>>

MonCooldown_Interruptible ==
    /\ m.pc = "cooldown"
    /\ m' = [m EXCEPT !.pc = "top"]
    /\ cfgChan' = 0
    /\ sigLog' = [sigLog EXCEPT !.posted = 0]
    /\ UNCHANGED <<cfg, saved, ipHistory, errorLogs, srv, h, hubVars>>
    /\ UNCHANGED <<selVars, dnsVars>>

MonCooldown_ClearsAddress ==
    /\ m.pc = "cooldown"
    /\ m' = [m EXCEPT !.pc = "top", !.lastIP = ""]
    /\ srv' = [srv EXCEPT !.CurrentIP = "", !.CurrentSource = ""]
    /\ UNCHANGED <<cfg, saved, ipHistory, errorLogs, webVars, hubVars>>
    /\ UNCHANGED <<selVars, dnsVars>>

MonCooldown ==
    /\ m.pc = "cooldown"
    /\ m' = [m EXCEPT !.pc = "top"]
    /\ UNCHANGED <<cfg, saved, ipHistory, errorLogs, srv, webVars, hubVars>>
    /\ UNCHANGED <<selVars, dnsVars>>

\* srv.SetCurrentIP(currentIP)
MonSetCurrentIP ==
    /\ m.pc = "setip"
    /\ srv' = [srv EXCEPT !.CurrentIP = m.currentIP]
    /\ m' = [m EXCEPT !.pc = "setsource"]
    /\ UNCHANGED <<cfg, saved, ipHistory, errorLogs, webVars, hubVars>>
    /\ UNCHANGED <<selVars, dnsVars>>

\* srv.SetCurrentSource(source), then the test currentIP != lastIP.  The
\* mutant sets the source inside the branch of a changed address.
MonSetCurrentSource_OnChange ==
    /\ m.pc = "setsource"
    /\ srv' = IF IPChanged(m.currentIP, m.lastIP)
              THEN [srv EXCEPT !.CurrentSource = m.source] ELSE srv
    /\ m' = IF IPChanged(m.currentIP, m.lastIP)
            THEN [m EXCEPT !.pc = "history", !.changed = TRUE]
            ELSE [m EXCEPT !.pc = "wait", !.timerDue = FALSE]
    /\ UNCHANGED <<cfg, saved, ipHistory, errorLogs, webVars, hubVars>>
    /\ UNCHANGED <<selVars, dnsVars>>

MonSetCurrentSource ==
    /\ m.pc = "setsource"
    /\ srv' = [srv EXCEPT !.CurrentSource = m.source]
    /\ m' = IF IPChanged(m.currentIP, m.lastIP)
            THEN [m EXCEPT !.pc = "history", !.changed = TRUE]
            ELSE [m EXCEPT !.pc = "wait", !.timerDue = FALSE]
    /\ UNCHANGED <<cfg, saved, ipHistory, errorLogs, webVars, hubVars>>
    /\ UNCHANGED <<selVars, dnsVars>>

\* database.AddIPHistory(currentIP, "v4", source)
MonAddIPHistory ==
    /\ m.pc = "history"
    /\ ipHistory' = Append(ipHistory, [ip |-> m.currentIP, source |-> m.source])
    /\ m' = [m EXCEPT !.pc = "update", !.hist = @ + 1]
    /\ UNCHANGED <<cfg, saved, errorLogs, srv, webVars, hubVars>>
    /\ UNCHANGED <<selVars, dnsVars>>

\* updater.UpdateIP(currentIP) is entered
MonCallUpdateIP ==
    /\ m.pc = "update"
    /\ BeginUpdateIP("monitor", m.currentIP)
    /\ UNCHANGED callsLeft
    /\ m' = [m EXCEPT !.pc = "updating", !.upd = Append(@, m.currentIP)]
    /\ UNCHANGED <<cfg, saved, ipHistory, errorLogs, srv, webVars, hubVars>>
    /\ UNCHANGED selVars

\* mutant: lastIP is left alone when the invocation recorded a failure
MonUpdateReturned_KeepOnFailure ==
    /\ m.pc = "updating"
    /\ u["monitor"].pc = "idle"
    /\ m' = [m EXCEPT !.pc = "wait", !.timerDue = FALSE,
                      !.lastIP = IF \E k \in 1..Len(dnsUpdates) :
                                       /\ dnsUpdates[k].caller = "monitor"
                                       /\ dnsUpdates[k].call = u["monitor"].call
                                       /\ ~dnsUpdates[k].success
                                 THEN @ ELSE m.currentIP]
    /\ UNCHANGED <<cfg, saved, ipHistory, errorLogs, srv, webVars, hubVars>>
    /\ UNCHANGED <<selVars, dnsVars>>

\* updater.UpdateIP returned (both branches only log); lastIP = currentIP
MonUpdateReturned ==
    /\ m.pc = "updating"
    /\ u["monitor"].pc = "idle"
    /\ m' = [m EXCEPT !.pc = "wait", !.lastIP = m.currentIP, !.timerDue = FALSE]
    /\ UNCHANGED <<cfg, saved, ipHistory, errorLogs, srv, webVars, hubVars>>
    /\ UNCHANGED <<selVars, dnsVars>>

\* the cases of the wait's select that are ready: the timer once
\* checkInterval has elapsed, the channel while a signal is pending.  The
\* mutant is a plain sleep.
SelectReady_TimerOnly(timerDue, pending) ==
    IF timerDue THEN {"timer"} ELSE {}

SelectReady(timerDue, pending) ==
    (IF timerDue THEN {"timer"} ELSE {}) \cup (IF pending > 0 THEN {"signal"} ELSE {})

\* checkInterval elapses while monitorIP is blocked in its select: with a
\* case ready the select does not block
MonTimeElapses ==
    /\ m.pc = "wait"
    /\ SelectReady(m.timerDue, cfgChan) = {}
    /\ m' = [m EXCEPT !.timerDue = TRUE]
    /\ UNCHANGED <<cfg, saved, ipHistory, errorLogs, srv, webVars, hubVars>>
    /\ UNCHANGED <<selVars, dnsVars>>

\* select: case <-timer.C
MonTimerFired ==
    /\ m.pc = "wait"
    /\ "timer" \in SelectReady(m.timerDue, cfgChan)
    /\ m' = [m EXCEPT !.pc = "top", !.woke = "timer"]
    /\ UNCHANGED <<cfg, saved, ipHistory, errorLogs, srv, webVars, hubVars>>
    /\ UNCHANGED <<selVars, dnsVars>>

\* select: case <-srv.ConfigUpdateChan
MonConfigSignal ==
    /\ m.pc = "wait"
    /\ "signal" \in SelectReady(m.timerDue, cfgChan)
    /\ cfgChan' = cfgChan - 1
    /\ sigLog' = [sigLog EXCEPT !.posted = 0]
    /\ m' = [m EXCEPT !.pc = "top", !.woke = "signal"]
    /\ UNCHANGED <<cfg, saved, ipHistory, errorLogs, srv, h, hubVars>>
    /\ UNCHANGED <<selVars, dnsVars>>

\* capacity of ConfigUpdateChan: make(chan struct{}, 1)
configChanCap == 1

\* configuration changes in one run of the model
MaxPosts == 2

\* the signal log after one more post, made while n signals were pending and
\* monitorIP was at pc (waiting or busy)
Posted(log, n, pc) ==
    [posted |-> log.posted + 1, rejected |-> log.rejected,
     at |-> IF n > 0 THEN log.at ELSE IF pc = "wait" THEN "wait" ELSE "busy",
     changesLeft |-> log.changesLeft - 1]

\* select { case ch <- struct{}{}: default: } on a channel holding n
\* signals.  The mutant queues every signal.
TrySend_Queue(n) == n + 1

TrySend(n) == IF n < configChanCap THEN n + 1 ELSE n

\* the non-blocking send on ConfigUpdateChan (capacity 1) that
\* handleUpdateConfig performs, taken alone: a signal already pending
\* absorbs it.  HandleUpdateConfig below is the handler as a whole.
NotifyConfigUpdate ==
    /\ sigLog.changesLeft > 0
    /\ cfgChan' = TrySend(cfgChan)
    /\ sigLog' = Posted(sigLog, cfgChan, m.pc)
    /\ UNCHANGED <<cfg, saved, m, ipHistory, errorLogs, srv, h, hubVars>>
    /\ UNCHANGED <<selVars, dnsVars>>

\* the web handlers modelled as processes
Handlers == {"config"}

HandlerOff == [pc |-> "off", ip |-> "", source |-> ""]

\* no signal posted yet, no request refused yet, n requests to come
NoSignals(n) == [posted |-> 0, rejected |-> 0, at |-> "", changesLeft |-> n]

(***************************************************************************)
(* The web handlers that replace the configuration or touch the server's   *)
(* address.  A request that fails to bind returns before it changes       *)
(* anything and is a stuttering step; a request whose database write fails *)
(* is not followed.  One goroutine of handleUpdateConfig is followed at a  *)
(* time.                                                                   *)
(***************************************************************************)
\* the configurations a request may carry that pass ValidateConfig
WebConfigs ==
    {[IPProviders |-> <<[Type |-> "stun", Enabled |-> TRUE]>>,
      CloudflareAccounts |-> <<>>, IPCheck |-> [num |-> 10, unit |-> "s"]],
     [IPProviders |-> <<[Type |-> "router_ssh", Enabled |-> TRUE]>>,
      CloudflareAccounts |-> <<HomeRoot>>, IPCheck |-> [num |-> 10, unit |-> "s"]]}

\* configurations a request may carry that ValidateConfig refuses: an
\* ip_check of "0s", an enabled provider of a kind not implemented, an
\* account whose zone has an empty record name
InvalidConfigs ==
    {[IPProviders |-> <<[Type |-> "stun", Enabled |-> TRUE]>>,
      CloudflareAccounts |-> <<>>, IPCheck |-> [num |-> 0, unit |-> "s"]],
     [IPProviders |-> <<[Type |-> "http", Enabled |-> TRUE]>>,
      CloudflareAccounts |-> <<>>, IPCheck |-> [num |-> 10, unit |-> "s"]],
     [IPProviders |-> <<[Type |-> "stun", Enabled |-> TRUE]>>,
      CloudflareAccounts |->
          <<[HomeRoot EXCEPT !.Zones = <<[ZoneName |-> "example.com", Records |-> <<"">>]>>]>>,
      IPCheck |-> [num |-> 10, unit |-> "s"]]}

\* the error response of a handler: the request is over, nothing else changes
Refused(log) == [log EXCEPT !.rejected = @ + 1, !.changesLeft = @ - 1]

\* handleUpdateConfig up to its response: ValidateConfig (400 on failure),
\* SaveConfig, which validates again before it writes, Config.Update,
\* AddErrorLog, the non-blocking send on ConfigUpdateChan, and the goroutine
\* is started
HandleUpdateConfig ==
    /\ sigLog.changesLeft > 0
    /\ h["config"].pc = "off"
    /\ \E newCfg \in WebConfigs \cup InvalidConfigs :
        IF ~ValidateConfig(newCfg) \/ ~SaveConfig(newCfg)
        THEN /\ sigLog' = Refused(sigLog)
             /\ UNCHANGED <<cfg, saved, errorLogs, cfgChan, h>>
        ELSE /\ saved' = newCfg
             /\ cfg' = newCfg
             /\ errorLogs' = Append(errorLogs, [level |-> "info", cycle |-> m.cycle])
             /\ cfgChan' = TrySend(cfgChan)
             /\ sigLog' = Posted(sigLog, cfgChan, m.pc)
             /\ h' = [h EXCEPT !["config"] = [HandlerOff EXCEPT !.pc = "sleep"]]
    /\ UNCHANGED <<m, ipHistory, srv, hubVars>>
    /\ UNCHANGED <<selVars, dnsVars>>

\* handleImportConfig: SaveConfig, which validates before it writes (500 on
\* failure), and Config.Update, nothing else
HandleImportConfig ==
    /\ sigLog.changesLeft > 0
    /\ \E testCfg \in WebConfigs \cup InvalidConfigs :
        IF ~SaveConfig(testCfg)
        THEN /\ sigLog' = Refused(sigLog)
             /\ UNCHANGED <<cfg, saved>>
        ELSE /\ saved' = testCfg
             /\ cfg' = testCfg
             /\ sigLog' = [sigLog EXCEPT !.changesLeft = @ - 1]
    /\ UNCHANGED <<m, ipHistory, errorLogs, srv, cfgChan, h, hubVars>>
    /\ UNCHANGED <<selVars, dnsVars>>

\* where a handler goes once it has read GetCurrentIP()
AfterGetCurrentIP(ip) ==
    IF ip = "" THEN [HandlerOff EXCEPT !.pc = "getip"]
    ELSE [HandlerOff EXCEPT !.pc = "update", !.ip = ip]

\* the goroutine of handleUpdateConfig after its 500 ms: ip := GetCurrentIP()
ConfigAfterSleep ==
    /\ h["config"].pc = "sleep"
    /\ h' = [h EXCEPT !["config"] = AfterGetCurrentIP(srv.CurrentIP)]
    /\ UNCHANGED <<cfg, saved, m, ipHistory, errorLogs, srv, cfgChan, sigLog, hubVars>>
    /\ UNCHANGED <<selVars, dnsVars>>

\* IPProvider.GetIP() in a handler that found no current address; on an
\* error the goroutine has nothing to update
HandlerGetIP(c) ==
    /\ h[c].pc = "getip"
    /\ \E outs \in ProviderOutcomes(cfg.IPProviders) :
        LET res == GetIP(cfg.IPProviders, outs) IN
        h' = [h EXCEPT ![c] = IF res.err # "" THEN HandlerOff
                              ELSE [pc |-> "setip", ip |-> res.ip, source |-> res.source]]
    /\ UNCHANGED <<cfg, saved, m, ipHistory, errorLogs, srv, cfgChan, sigLog, hubVars>>
    /\ UNCHANGED <<selVars, dnsVars>>

\* s.SetCurrentIP(ip) in a handler
HandlerSetCurrentIP(c) ==
    /\ h[c].pc = "setip"
    /\ srv' = [srv EXCEPT !.CurrentIP = h[c].ip]
    /\ h' = [h EXCEPT ![c].pc = "setsource"]
    /\ UNCHANGED <<cfg, saved, m, ipHistory, errorLogs, cfgChan, sigLog, hubVars>>
    /\ UNCHANGED <<selVars, dnsVars>>

\* s.SetCurrentSource(source) in a handler
HandlerSetCurrentSource(c) ==
    /\ h[c].pc = "setsource"
    /\ srv' = [srv EXCEPT !.CurrentSource = h[c].source]
    /\ h' = [h EXCEPT ![c].pc = "update"]
    /\ UNCHANGED <<cfg, saved, m, ipHistory, errorLogs, cfgChan, sigLog, hubVars>>
    /\ UNCHANGED <<selVars, dnsVars>>

\* the goroutine of handleUpdateConfig enters DNSUpdater.UpdateIP(ip)
ConfigCallUpdateIP ==
    /\ h["config"].pc = "update"
    /\ BeginUpdateIP("config", h["config"].ip)
    /\ UNCHANGED callsLeft
    /\ h' = [h EXCEPT !["config"].pc = "updating"]
    /\ UNCHANGED <<cfg, saved, m, ipHistory, errorLogs, srv, cfgChan, sigLog, hubVars>>
    /\ UNCHANGED selVars

\* UpdateIP returned to the goroutine: AddErrorLog("error", ...) if err != nil,
\* else AddErrorLog("success", ...)
ConfigUpdateReturned ==
    /\ h["config"].pc = "updating"
    /\ u["config"].pc = "idle"
    /\ errorLogs' = Append(errorLogs, [level |-> IF u["config"].ret # "nil" THEN "error"
                                                 ELSE "success",
                                       cycle |-> m.cycle])
    /\ h' = [h EXCEPT !["config"] = HandlerOff]
    /\ UNCHANGED <<cfg, saved, m, ipHistory, srv, cfgChan, sigLog, hubVars>>
    /\ UNCHANGED <<selVars, dnsVars>>

(***************************************************************************)
(* The event hub (Hub, Client) of server/websocket.go.                     *)
(***************************************************************************)
\* capacity of Client.send: make(chan WSMessage, 256)
sendCap == 256

\* events handed to Hub.Broadcast in one run of the model
MaxBroadcasts == 2
\* messages one writePump writes in one run of the model
MaxWrites == 1

\* the connections that may subscribe
Subscribers == {"c1", "c2"}

\* the events the model hands to the hub
HubEvents == {BroadcastIPChange(a, "STUN") : a \in IPs}

\* a message queued before the run starts
Backlog == [Type |-> "backlog", Data |-> [ip |-> "", source |-> ""]]

NoMsg == [Type |-> "", Data |-> [ip |-> "", source |-> ""]]

\* a Client: its connection, its send channel (contents, closed or not), its
\* readPump and writePump, and the messages written to the connection
NoClient ==
    [conn |-> "none", send |-> <<>>, closed |-> FALSE, closes |-> 0,
     reader |-> "off", writer |-> "off", written |-> 0]

\* handleWebSocket: &Client{send: make(chan WSMessage, 256)}
NewClient ==
    [conn |-> "open", send |-> <<>>, closed |-> FALSE, closes |-> 0,
     reader |-> "running", writer |-> "running", written |-> 0]

\* NewHub, with Run waiting in its select
HubStart ==
    [pc |-> "select", msg |-> NoMsg, pending |-> {}, clients |-> {}, dropped |-> 0]

\* Broadcast's select on the unbuffered h.broadcast: the send proceeds iff
\* Run is waiting in its select, otherwise the default case drops the event.
\* The mutant has no default case.
BroadcastSelect_NoDefault(receiverReady) ==
    IF receiverReady THEN "sent" ELSE "blocked"

BroadcastSelect(receiverReady) ==
    IF receiverReady THEN "sent" ELSE "dropped"

\* Run's select on client.send: the send proceeds iff the buffer has room,
\* otherwise the default case evicts the client.  The mutant keeps a full
\* client registered and skips it.
ClientSelect_KeepFull(queue) ==
    IF Len(queue) < sendCap THEN "sent" ELSE "skipped"

ClientSelect(queue) ==
    IF Len(queue) < sendCap THEN "sent" ELSE "evicted"

\* Hub.Broadcast(msgType, data)
HubBroadcast ==
    /\ Len(hubIn) < MaxBroadcasts
    /\ \E ev \in HubEvents :
        LET outcome == BroadcastSelect(hub.pc = "select") IN
        /\ outcome # "blocked"
        /\ hubIn' = Append(hubIn, ev)
        /\ hub' = IF outcome = "sent"
                  THEN [hub EXCEPT !.pc = "dispatch", !.msg = ev, !.pending = hub.clients]
                  ELSE [hub EXCEPT !.dropped = @ + 1]
    /\ UNCHANGED subs
    /\ UNCHANGED <<cfg, saved, selVars, dnsVars, m, ipHistory, errorLogs, srv, webVars>>

\* Run, case message := <-h.broadcast: one iteration of the loop over
\* h.clients (a map: any order)
HubDispatchOne ==
    /\ hub.pc = "dispatch"
    /\ \E c \in hub.pending :
        LET outcome == ClientSelect(subs[c].send) IN
        /\ hub' = [hub EXCEPT !.pending = @ \ {c},
                              !.clients = IF outcome = "evicted" THEN @ \ {c} ELSE @]
        /\ subs' = [subs EXCEPT ![c] =
                      IF outcome = "sent" THEN [@ EXCEPT !.send = Append(@, hub.msg)]
                      ELSE IF outcome = "evicted"
                           THEN [@ EXCEPT !.closed = TRUE, !.closes = @ + 1]
                      ELSE @]
    /\ UNCHANGED hubIn
    /\ UNCHANGED <<cfg, saved, selVars, dnsVars, m, ipHistory, errorLogs, srv, webVars>>

\* mutant of Run's loop: it is left after the first client
HubDispatchDone_AfterOne ==
    /\ hub.pc = "dispatch"
    /\ hub.pending # hub.clients \/ hub.pending = {}
    /\ hub' = [hub EXCEPT !.pc = "select", !.msg = NoMsg, !.pending = {}]
    /\ UNCHANGED <<hubIn, subs>>
    /\ UNCHANGED <<cfg, saved, selVars, dnsVars, m, ipHistory, errorLogs, srv, webVars>>

\* Run: the loop over h.clients is over, back to the select
HubDispatchDone ==
    /\ hub.pc = "dispatch"
    /\ hub.pending = {}
    /\ hub' = [hub EXCEPT !.pc = "select", !.msg = NoMsg]
    /\ UNCHANGED <<hubIn, subs>>
    /\ UNCHANGED <<cfg, saved, selVars, dnsVars, m, ipHistory, errorLogs, srv, webVars>>

\* handleWebSocket: s.Hub.register <- client, received by Run's select
HubRegister(c) ==
    /\ subs[c].conn = "none"
    /\ hub.pc = "select"
    /\ subs' = [subs EXCEPT ![c] = NewClient]
    /\ hub' = [hub EXCEPT !.clients = @ \cup {c}]
    /\ UNCHANGED hubIn
    /\ UNCHANGED <<cfg, saved, selVars, dnsVars, m, ipHistory, errorLogs, srv, webVars>>

\* mutant of readPump: the deferred function only closes the connection
ReadPumpFails_NoUnregister(c) ==
    /\ subs[c].reader = "running"
    /\ subs' = [subs EXCEPT ![c] = [@ EXCEPT !.reader = "done", !.conn = "closed"]]
    /\ UNCHANGED <<hubIn, hub>>
    /\ UNCHANGED <<cfg, saved, selVars, dnsVars, m, ipHistory, errorLogs, srv, webVars>>

\* readPump: conn.ReadMessage returns an error, the loop is left
ReadPumpFails(c) ==
    /\ subs[c].reader = "running"
    /\ subs' = [subs EXCEPT ![c].reader = "unregistering"]
    /\ UNCHANGED <<hubIn, hub>>
    /\ UNCHANGED <<cfg, saved, selVars, dnsVars, m, ipHistory, errorLogs, srv, webVars>>

\* mutant of Run's unregister case: close(client.send) without the test
\* that the client is still registered
HubUnregister_NoTest(c) ==
    /\ subs[c].reader = "unregistering"
    /\ hub.pc = "select"
    /\ hub' = [hub EXCEPT !.clients = @ \ {c}]
    /\ subs' = [subs EXCEPT ![c] =
                  [@ EXCEPT !.reader = "done", !.conn = "closed",
                            !.closed = TRUE, !.closes = @ + 1]]
    /\ UNCHANGED hubIn
    /\ UNCHANGED <<cfg, saved, selVars, dnsVars, m, ipHistory, errorLogs, srv, webVars>>

\* readPump's deferred c.hub.unregister <- c, received by Run's select, and
\* c.conn.Close(); closes counts the close(client.send) calls (a second one
\* panics)
HubUnregister(c) ==
    /\ subs[c].reader = "unregistering"
    /\ hub.pc = "select"
    /\ hub' = [hub EXCEPT !.clients = @ \ {c}]
    /\ subs' = [subs EXCEPT ![c] =
                  [@ EXCEPT !.reader = "done", !.conn = "closed",
                            !.closed = IF c \in hub.clients THEN TRUE ELSE @,
                            !.closes = IF c \in hub.clients THEN @ + 1 ELSE @]]
    /\ UNCHANGED hubIn
    /\ UNCHANGED <<cfg, saved, selVars, dnsVars, m, ipHistory, errorLogs, srv, webVars>>

\* writePump: for message := range c.send { c.conn.WriteJSON(message) };
\* a write succeeds only on an open connection; a closed and drained channel
\* ends the loop, and the deferred c.conn.Close() closes the connection
WritePump(c) ==
    /\ subs[c].writer = "running"
    /\ IF Len(subs[c].send) > 0
       THEN /\ subs[c].conn = "open"
            /\ subs[c].written < MaxWrites
            /\ subs' = [subs EXCEPT ![c] = [@ EXCEPT !.send = Tail(@), !.written = @ + 1]]
       ELSE /\ subs[c].closed
            /\ subs' = [subs EXCEPT ![c] = [@ EXCEPT !.writer = "done", !.conn = "closed"]]
    /\ UNCHANGED <<hubIn, hub>>
    /\ UNCHANGED <<cfg, saved, selVars, dnsVars, m, ipHistory, errorLogs, srv, webVars>>

\* writePump: c.conn.WriteJSON(message) returns an error (at any time on an
\* open connection, always on a closed one): return, and the deferred
\* c.conn.Close().  The writer does not unregister.
WritePumpFails(c) ==
    /\ subs[c].writer = "running"
    /\ Len(subs[c].send) > 0
    /\ subs' = [subs EXCEPT ![c] = [@ EXCEPT !.send = Tail(@), !.writer = "done", !.conn = "closed"]]
    /\ UNCHANGED <<hubIn, hub>>
    /\ UNCHANGED <<cfg, saved, selVars, dnsVars, m, ipHistory, errorLogs, srv, webVars>>

(***************************************************************************)
(* Initial states and specifications.                                      *)
(***************************************************************************)
\* what the DNS provider may hold at a name before a run: nothing, or a
\* record with either address, proxied or not
RemoteChoices ==
    {NoRecord, [ID |-> "rec", Content |-> "203.0.113.1", Proxied |-> TRUE]}

QuietSel == selOuts = <<>> /\ selRes = NotCalled

QuietDNS ==
    /\ dnsUpdates = <<>>
    /\ u = [c \in Callers |-> Idle]

\* no signal pending, no handler running, n configuration changes to come
QuietWeb(n) ==
    /\ cfgChan = 0
    /\ sigLog = NoSignals(n)
    /\ h = [c \in Handlers |-> HandlerOff]

QuietMon ==
    /\ errorLogs = <<>>
    /\ srv = [CurrentIP |-> "", CurrentSource |-> "", LastCheckTime |-> 0]
    /\ hubIn = <<>>
    /\ hub = HubStart
    /\ subs = [c \in Subscribers |-> NoClient]

\* SpecSel: GetIP over every provider list of up to MaxProviders entries
InitSel ==
    /\ cfg \in {[EmptyCfg EXCEPT !.IPProviders = ps] :
                  ps \in SeqsUpTo(IPProviderConfig, MaxProviders)}
    /\ saved = cfg
    /\ QuietSel /\ QuietDNS /\ QuietMon /\ QuietWeb(0)
    /\ remote = [n \in Names |-> NoRecord]
    /\ failsLeft = 0 /\ expiriesLeft = 0 /\ callsLeft = 0
    /\ m = [MonitorStart EXCEPT !.pc = "off"]
    /\ ipHistory = <<>>

SelNext == CallGetIP

SpecSel == InitSel /\ [][SelNext]_vars

\* SpecSelValid: GetIP over the provider lists a configuration can hold once
\* SaveConfig has accepted it: every enabled entry is of a recognised kind
InitSelValid == InitSel /\ ValidateConfig(cfg)

SpecSelValid == InitSelValid /\ [][SelNext]_vars

\* the account lists SpecDNS starts from: one account with two zones, and
\* three accounts of which the middle one has no credential
DNSConfigs == {<<HomeAccount>>, <<HomeRoot, OffAccount, WorkAccount>>}

\* the account lists SpecRepeat starts from: one zone with one or two records
RepeatConfigs == {<<HomeRoot>>, <<HomePair>>}

ActiveNames(accounts) ==
    {DomainAt(accounts, p) : p \in {q \in RecordPositions(accounts) :
                                       accounts[q[1]].APIToken # ""}}

InitUpdater(configs, calls) ==
    /\ cfg \in {[EmptyCfg EXCEPT !.CloudflareAccounts = a] : a \in configs}
    /\ saved = cfg
    /\ QuietSel /\ QuietDNS /\ QuietMon /\ QuietWeb(0)
    /\ remote \in {r \in [Names -> RemoteChoices] :
                     \A n \in Names \ ActiveNames(cfg.CloudflareAccounts) : r[n] = NoRecord}
    /\ failsLeft = MaxFailures /\ expiriesLeft = MaxExpiries /\ callsLeft = calls
    /\ m = [MonitorStart EXCEPT !.pc = "off"]
    /\ ipHistory = <<>>

\* handleTriggerDNSUpdate's goroutine: s.DNSUpdater.UpdateIP(currentIP)
TriggerUpdateIP ==
    /\ callsLeft > 0
    /\ callsLeft' = callsLeft - 1
    /\ \E ip \in IPs : BeginUpdateIP("trigger", ip)
    /\ UNCHANGED <<cfg, saved, selVars, monVars>>

StepZoneLookup == \E c \in Callers : ZoneLookup(c)
StepZoneWait == \E c \in Callers : ZoneWait(c)
StepDeadline == \E c \in Callers : DeadlineExpires(c)
StepList == \E c \in Callers : ListRecords(c)
StepCreate == \E c \in Callers : CreateRecord(c)
StepUpdate == \E c \in Callers : UpdateRecord(c)
StepRecWait == \E c \in Callers : RecWait(c)

DNSNext ==
    \/ TriggerUpdateIP
    \/ StepZoneLookup
    \/ StepZoneWait
    \/ StepDeadline
    \/ StepList
    \/ StepCreate
    \/ StepUpdate
    \/ StepRecWait

\* SpecDNS: one UpdateIP over several zones and accounts
InitDNS == InitUpdater(DNSConfigs, MaxCalls)

SpecDNS == InitDNS /\ [][DNSNext]_vars

\* SpecRepeat: UpdateIP called repeatedly over one zone
InitRepeat == InitUpdater(RepeatConfigs, MaxRepeatCalls)

SpecRepeat == InitRepeat /\ [][DNSNext]_vars

\* SpecMon: monitorIP with the synchronizer it calls (no zone deadline
\* expires here); every wait ends with its timer
StunOn == [Type |-> "stun", Enabled |-> TRUE]
RouterOn == [Type |-> "router_ssh", Enabled |-> TRUE]

MonConfigs ==
    {[IPProviders |-> ps, CloudflareAccounts |-> a, IPCheck |-> i] :
        ps \in {<<StunOn>>, <<RouterOn, StunOn>>},
        a \in {<<>>, <<HomeRoot>>},
        i \in {NoInterval, [num |-> 10, unit |-> "s"], [num |-> 1, unit |-> "d"]}}

InitMon ==
    /\ cfg \in MonConfigs
    /\ saved = cfg
    /\ QuietSel /\ QuietDNS /\ QuietMon /\ QuietWeb(0)
    /\ remote \in {r \in [Names -> RemoteChoices] :
                     \A n \in Names \ ActiveNames(cfg.CloudflareAccounts) : r[n] = NoRecord}
    /\ failsLeft = MaxMonFailures /\ expiriesLeft = 0 /\ callsLeft = 0
    /\ m = MonitorStart
    /\ ipHistory \in {<<>>} \cup {<<[ip |-> a, source |-> "STUN"]>> : a \in IPs}
                     \cup {<<[ip |-> "203.0.113.1", source |-> "STUN"],
                              [ip |-> "203.0.113.2", source |-> "STUN"]>>}

MonNext ==
    \/ MonSeed
    \/ MonTop
    \/ MonGetIP
    \/ MonCooldown
    \/ MonSetCurrentIP
    \/ MonSetCurrentSource
    \/ MonAddIPHistory
    \/ MonCallUpdateIP
    \/ MonUpdateReturned
    \/ MonTimeElapses
    \/ MonTimerFired
    \/ StepZoneLookup
    \/ StepZoneWait
    \/ StepList
    \/ StepCreate
    \/ StepUpdate
    \/ StepRecWait

SpecMon == InitMon /\ [][MonNext]_vars

\* SpecMonFail: monitorIP over one account, with enough failures of the DNS
\* service for an operation to use up all its attempts
InitMonFail ==
    /\ cfg = [IPProviders |-> <<StunOn>>, CloudflareAccounts |-> <<HomeRoot>>,
              IPCheck |-> [num |-> 10, unit |-> "s"]]
    /\ saved = cfg
    /\ QuietSel /\ QuietDNS /\ QuietMon /\ QuietWeb(0)
    /\ remote \in {r \in [Names -> RemoteChoices] :
                     \A n \in Names \ ActiveNames(cfg.CloudflareAccounts) : r[n] = NoRecord}
    /\ failsLeft = maxRetries + 1 /\ expiriesLeft = 0 /\ callsLeft = 0
    /\ m = MonitorStart
    /\ ipHistory = <<>>

SpecMonFail == InitMonFail /\ [][MonNext]_vars

\* SpecMonFair: monitorIP's goroutine keeps running: each of its steps is
\* taken once it can be, the calls it makes (GetIP, the database, the steps of
\* UpdateIP and the calls of the DNS service inside them) return, and time
\* passes while it sleeps or waits.
MonFair ==
    /\ WF_vars(MonSeed) /\ WF_vars(MonTop) /\ WF_vars(MonGetIP) /\ WF_vars(MonCooldown)
    /\ WF_vars(MonSetCurrentIP) /\ WF_vars(MonSetCurrentSource)
    /\ WF_vars(MonAddIPHistory) /\ WF_vars(MonCallUpdateIP) /\ WF_vars(MonUpdateReturned)
    /\ WF_vars(MonTimeElapses) /\ WF_vars(MonTimerFired)
    /\ WF_vars(ZoneLookup("monitor")) /\ WF_vars(ZoneWait("monitor"))
    /\ WF_vars(ListRecords("monitor")) /\ WF_vars(CreateRecord("monitor"))
    /\ WF_vars(UpdateRecord("monitor")) /\ WF_vars(RecWait("monitor"))

\* the first start of the program: no address in the history yet
InitMonFair == InitMon /\ ipHistory = <<>>

SpecMonFair == InitMonFair /\ [][MonNext]_vars /\ MonFair

\* SpecSched: monitorIP with the web handlers around it and one request
\* that replaces the configuration; the calls of the DNS service succeed here
InitWeb(n) ==
    /\ cfg \in WebConfigs
    /\ saved = cfg
    /\ QuietSel /\ QuietDNS /\ QuietMon /\ QuietWeb(n)
    /\ remote = [name \in Names |-> NoRecord]
    /\ failsLeft = 0 /\ expiriesLeft = 0 /\ callsLeft = 0
    /\ m = MonitorStart
    /\ ipHistory = <<>>

InitSched == InitWeb(1)

StepHandlerGetIP == \E c \in Handlers : HandlerGetIP(c)
StepHandlerSetCurrentIP == \E c \in Handlers : HandlerSetCurrentIP(c)
StepHandlerSetCurrentSource == \E c \in Handlers : HandlerSetCurrentSource(c)

SchedNext ==
    \/ MonSeed
    \/ MonTop
    \/ MonGetIP
    \/ MonCooldown
    \/ MonSetCurrentIP
    \/ MonSetCurrentSource
    \/ MonAddIPHistory
    \/ MonCallUpdateIP
    \/ MonUpdateReturned
    \/ MonTimeElapses
    \/ MonTimerFired
    \/ MonConfigSignal
    \/ HandleUpdateConfig
    \/ HandleImportConfig
    \/ ConfigAfterSleep
    \/ StepHandlerGetIP
    \/ StepHandlerSetCurrentIP
    \/ StepHandlerSetCurrentSource
    \/ ConfigCallUpdateIP
    \/ ConfigUpdateReturned
    \/ StepZoneLookup
    \/ StepList
    \/ StepCreate
    \/ StepUpdate

SpecSched == InitSched /\ [][SchedNext]_vars

\* SpecConfigFail: one handleUpdateConfig request and its goroutine, with a
\* DNS service that fails often enough for an operation to use up all its
\* attempts.  monitorIP is not followed: the server holds the address it
\* published last, or none yet.
InitConfigFail ==
    /\ cfg \in WebConfigs
    /\ saved = cfg
    /\ QuietSel /\ QuietDNS /\ QuietWeb(1)
    /\ errorLogs = <<>>
    /\ \E a \in IPs \cup {""} :
          srv = [CurrentIP |-> a, CurrentSource |-> IF a = "" THEN "" ELSE "STUN",
                 LastCheckTime |-> 1]
    /\ hubIn = <<>> /\ hub = HubStart /\ subs = [c \in Subscribers |-> NoClient]
    /\ remote \in {r \in [Names -> RemoteChoices] :
                     \A n \in Names \ ActiveNames(<<HomeRoot>>) : r[n] = NoRecord}
    /\ failsLeft = maxRetries + 1 /\ expiriesLeft = 0 /\ callsLeft = 0
    /\ m = [MonitorStart EXCEPT !.pc = "off"]
    /\ ipHistory = <<>>

ConfigFailNext ==
    \/ HandleUpdateConfig
    \/ ConfigAfterSleep
    \/ StepHandlerGetIP
    \/ StepHandlerSetCurrentIP
    \/ StepHandlerSetCurrentSource
    \/ ConfigCallUpdateIP
    \/ ConfigUpdateReturned
    \/ StepZoneLookup
    \/ StepZoneWait
    \/ StepList
    \/ StepCreate
    \/ StepUpdate
    \/ StepRecWait

SpecConfigFail == InitConfigFail /\ [][ConfigFailNext]_vars

\* SpecSignal: monitorIP and the configuration-change signal alone, posted up
\* to MaxPosts times at any moment (the whole handler that posts it is in
\* SpecSched)
InitSignal == InitWeb(MaxPosts)

SignalNext ==
    \/ MonSeed
    \/ MonTop
    \/ MonGetIP
    \/ MonCooldown
    \/ MonSetCurrentIP
    \/ MonSetCurrentSource
    \/ MonAddIPHistory
    \/ MonCallUpdateIP
    \/ MonUpdateReturned
    \/ MonTimeElapses
    \/ MonTimerFired
    \/ MonConfigSignal
    \/ NotifyConfigUpdate
    \/ StepZoneLookup
    \/ StepList
    \/ StepCreate
    \/ StepUpdate

SpecSignal == InitSignal /\ [][SignalNext]_vars

\* SpecHub: the hub with subscribers that connect, fall behind and leave.  A
\* subscriber connected before the run starts has an empty queue or a queue
\* with one free place, which the next event fills.
BacklogChoices == {0, sendCap - 1}

InitHub ==
    /\ cfg = EmptyCfg
    /\ saved = cfg
    /\ QuietSel /\ QuietDNS
    /\ errorLogs = <<>>
    /\ srv = [CurrentIP |-> "", CurrentSource |-> "", LastCheckTime |-> 0]
    /\ QuietWeb(0)
    /\ hubIn = <<>>
    /\ subs \in [Subscribers ->
                   {NoClient} \cup {[NewClient EXCEPT !.send = [i \in 1..n |-> Backlog]] :
                                      n \in BacklogChoices}]
    /\ hub = [HubStart EXCEPT !.clients = {c \in Subscribers : subs[c].conn = "open"}]
    /\ remote = [n \in Names |-> NoRecord]
    /\ failsLeft = 0 /\ expiriesLeft = 0 /\ callsLeft = 0
    /\ m = [MonitorStart EXCEPT !.pc = "off"]
    /\ ipHistory = <<>>

StepRegister == \E c \in Subscribers : HubRegister(c)
StepReadPumpFails == \E c \in Subscribers : ReadPumpFails(c)
StepUnregister == \E c \in Subscribers : HubUnregister(c)
StepWritePump == \E c \in Subscribers : WritePump(c)
StepWritePumpFails == \E c \in Subscribers : WritePumpFails(c)

HubNext ==
    \/ HubBroadcast
    \/ HubDispatchOne
    \/ HubDispatchDone
    \/ StepRegister
    \/ StepReadPumpFails
    \/ StepUnregister
    \/ StepWritePump
    \/ StepWritePumpFails

SpecHub == InitHub /\ [][HubNext]_vars

\* SpecHubFair: the hub under the scheduling the runtime gives.  Run's
\* goroutine keeps running (its loop over the clients never blocks, and its
\* select receives a pending unregister); a reader blocked in ReadMessage
\* returns once the connection is closed, and so does a writer's WriteJSON; a
\* writer whose channel is closed and drained leaves its loop.  Errors on an
\* open connection, new registrations and broadcasts are not forced.
HubFair ==
    /\ WF_vars(HubDispatchOne)
    /\ WF_vars(HubDispatchDone)
    /\ \A c \in Subscribers :
        /\ WF_vars(HubUnregister(c))
        /\ WF_vars(subs[c].conn = "closed" /\ ReadPumpFails(c))
        /\ WF_vars(subs[c].conn = "closed" /\ WritePumpFails(c))
        /\ WF_vars(Len(subs[c].send) = 0 /\ WritePump(c))

\* a subscriber that has come and gone before the run starts
GoneClient ==
    [conn |-> "closed", send |-> <<>>, closed |-> TRUE, closes |-> 1,
     reader |-> "done", writer |-> "done", written |-> 0]

\* one subscriber is followed from its connection to its teardown, the others
\* have left already
InitHubFair ==
    /\ cfg = EmptyCfg
    /\ saved = cfg
    /\ QuietSel /\ QuietDNS
    /\ errorLogs = <<>>
    /\ srv = [CurrentIP |-> "", CurrentSource |-> "", LastCheckTime |-> 0]
    /\ QuietWeb(0)
    /\ hubIn = <<>>
    /\ \E c \in Subscribers :
        /\ subs \in [Subscribers ->
                       {NoClient, GoneClient} \cup
                       {[NewClient EXCEPT !.send = [i \in 1..n |-> Backlog]] : n \in BacklogChoices}]
        /\ \A d \in Subscribers \ {c} : subs[d] = GoneClient
    /\ hub = [HubStart EXCEPT !.clients = {c \in Subscribers : subs[c].conn = "open"}]
    /\ remote = [n \in Names |-> NoRecord]
    /\ failsLeft = 0 /\ expiriesLeft = 0 /\ callsLeft = 0
    /\ m = [MonitorStart EXCEPT !.pc = "off"]
    /\ ipHistory = <<>>

SpecHubFair == InitHubFair /\ [][HubNext]_vars /\ HubFair

(***************************************************************************)
(* Properties of the provider selector, checked under SpecSel.             *)
(***************************************************************************)
\* the declared providers GetIP may call: enabled and of a recognised kind
SelAttemptable ==
    {i \in 1..Len(cfg.IPProviders) :
        /\ cfg.IPProviders[i].Enabled
        /\ cfg.IPProviders[i].Type \in {"stun", "router_ssh"}}

\* the attemptable providers whose discovery succeeds with a non-empty address
SelSucceeding ==
    {i \in SelAttemptable : selOuts[i].err = "" /\ selOuts[i].ip # ""}

\* the k-th member of a set of indices, in declaration order
SelNth(S, k) == CHOOSE i \in S : Cardinality({j \in S : j <= i}) = k

SelCalled == selRes.err # "not called"

\* C3: when some enabled, recognised provider succeeds with a non-empty
\* address, GetIP returns the address of the earliest such provider in
\* declaration order without an error; the providers it called are exactly
\* the enabled recognised ones declared up to that provider, in order, so
\* disabled and unrecognised entries are skipped and nothing declared after
\* the succeeding provider is called.
C3_FirstSuccessWins ==
    (SelCalled /\ SelSucceeding # {}) =>
        LET first == CHOOSE i \in SelSucceeding : \A j \in SelSucceeding : i <= j
            upTo == {i \in SelAttemptable : i <= first}
        IN  /\ selRes.ip = selOuts[first].ip
            /\ selRes.err = ""
            /\ Len(selRes.invoked) = Cardinality(upTo)
            /\ \A k \in 1..Len(selRes.invoked) : selRes.invoked[k] = SelNth(upTo, k)
            /\ \A k \in 1..Len(selRes.invoked) : selRes.invoked[k] <= first

\* a call over three entries, the first disabled, in which the second and
\* the third provider would return different addresses
C3_Witness ==
    /\ SelCalled
    /\ Len(cfg.IPProviders) = 3
    /\ ~cfg.IPProviders[1].Enabled
    /\ SelSucceeding = {2, 3}
    /\ selOuts[2].ip # selOuts[3].ip
    /\ selRes.ip = selOuts[2].ip
    /\ selRes.invoked = <<2>>

\* C4: when no attempted provider succeeds, GetIP returns no address and an
\* error; its error list holds exactly one labelled entry per attempted
\* provider (the provider's kind and its error), in the order the providers
\* were attempted, and with at least one attempted provider the error is the
\* aggregate failure.
C4_AggregateFailure ==
    (SelCalled /\ SelSucceeding = {}) =>
        /\ selRes.ip = ""
        /\ selRes.err # ""
        /\ Len(selRes.errors) = Cardinality(SelAttemptable)
        /\ \A k \in 1..Len(selRes.errors) :
             LET i == SelNth(SelAttemptable, k)
             IN  /\ selRes.errors[k].label = cfg.IPProviders[i].Type
                 /\ selRes.errors[k].err = selOuts[i].err
                 /\ selRes.invoked[k] = i
        /\ Len(selRes.invoked) = Len(selRes.errors)
        /\ (SelAttemptable # {}) => selRes.err = ErrAllFailed

\* a call in which two providers of different kinds failed, a disabled entry
\* between them
C4_Witness ==
    /\ SelCalled
    /\ Len(cfg.IPProviders) = 3
    /\ SelAttemptable = {1, 3}
    /\ cfg.IPProviders[1].Type # cfg.IPProviders[3].Type
    /\ selRes.err = ErrAllFailed
    /\ Len(selRes.errors) = 2

(***************************************************************************)
(* Properties of the synchronizer, checked under SpecDNS and SpecRepeat.   *)
(***************************************************************************)
\* caller c's invocation of UpdateIP has returned
Returned(c) == u[c].pc = "idle" /\ u[c].call >= 1

\* the outcomes the audit sink holds for one name from one invocation
OutcomesOf(c, call, domain) ==
    {k \in 1..Len(dnsUpdates) :
        /\ dnsUpdates[k].caller = c
        /\ dnsUpdates[k].call = call
        /\ dnsUpdates[k].domain = domain}

\* the retried operation caller c's invocation finished last, if any
Finished(c) == u[c].last.call >= 1 /\ u[c].last.call = u[c].call

\* n failures followed by one success
FailsThenSucceeds(tries) ==
    /\ Len(tries) >= 1
    /\ tries[Len(tries)]
    /\ \A k \in 1..(Len(tries) - 1) : ~tries[k]

\* the record positions UpdateIP is configured to reconcile: those of the
\* accounts with a non-empty credential
Credentialed(accounts) ==
    {p \in RecordPositions(accounts) : accounts[p[1]].APIToken # ""}

\* C6: a record reconciled with every remote call succeeding: when no A
\* record existed at its name, exactly one create call with the target
\* address and no update call was issued; when a record with other content
\* existed, exactly one update call on that record, setting the target
\* address and keeping its proxied flag, and no create call; either way the
\* audit sink holds exactly one outcome for the record, a success.
C6_OneCreateOrOneUpdate ==
    \A c \in Callers :
        LET op == u[c].last
            before == u[c].remote0[op.name]
        IN  (Finished(c) /\ op.kind = "record" /\ op.tries = <<TRUE>>
                /\ before.Content # u[c].ip) =>
                /\ Len(op.calls) = 1
                /\ op.calls[1].name = op.name
                /\ op.calls[1].content = u[c].ip
                /\ op.calls[1].ok
                /\ (before.ID = "") => op.calls[1].op = "create"
                /\ (before.ID # "") =>
                       /\ op.calls[1].op = "update"
                       /\ op.calls[1].id = before.ID
                       /\ op.calls[1].proxied = before.Proxied
                       /\ remote[op.name].Proxied = before.Proxied
                /\ remote[op.name].Content = u[c].ip
                /\ Cardinality(OutcomesOf(c, op.call, op.name)) = 1
                /\ \A k \in OutcomesOf(c, op.call, op.name) : dnsUpdates[k].success

\* one invocation that created a record at one name and updated a proxied
\* record at another
C6_Witness ==
    \E c \in Callers :
        /\ Returned(c)
        /\ \E j, k \in 1..Len(dnsUpdates) :
            /\ dnsUpdates[j].success /\ dnsUpdates[k].success
            /\ u[c].remote0[dnsUpdates[j].domain].ID = ""
            /\ u[c].remote0[dnsUpdates[k].domain].Proxied
            /\ u[c].remote0[dnsUpdates[k].domain].Content # u[c].ip
            /\ remote[dnsUpdates[k].domain].Proxied
            /\ remote[dnsUpdates[k].domain].Content = u[c].ip
            /\ remote[dnsUpdates[j].domain].Content = u[c].ip
        /\ u[c].last.tries = <<TRUE>>
        /\ Len(u[c].last.calls) = 1

\* C7: a retried operation (zone-id lookup or record update) that failed n
\* times, n <= maxRetries, and then succeeded returns success; exactly n
\* backoff waits occurred, of 1 s, 2 s and 4 s in this order, so they never
\* decrease and none exceeds maxBackoff.
C7_BackoffSchedule ==
    \A c \in Callers :
        LET op == u[c].last
            n == Len(op.tries) - 1
        IN  (Finished(c) /\ FailsThenSucceeds(op.tries) /\ n <= maxRetries) =>
                /\ op.ok
                /\ Len(op.waits) = n
                /\ \A k \in 1..Len(op.waits) : op.waits[k] = <<1, 2, 4>>[k]
                /\ \A k \in 1..(Len(op.waits) - 1) : op.waits[k] <= op.waits[k + 1]
                /\ \A k \in 1..Len(op.waits) : op.waits[k] <= maxBackoff

\* a record update that failed three times and then succeeded
C7_Witness ==
    \E c \in Callers :
        /\ Finished(c)
        /\ u[c].last.kind = "record"
        /\ u[c].last.tries = <<FALSE, FALSE, FALSE, TRUE>>
        /\ u[c].last.ok
        /\ Len(u[c].last.waits) = 3

\* C8: a retried operation makes at most maxRetries + 1 = 4 attempts and
\* waits at most maxRetries times; no wait follows a 4th failed attempt: the
\* operation returns a failure at once, having waited exactly three times.
C8_AtMostFourAttempts ==
    \A c \in Callers :
        /\ Len(u[c].tries) <= maxRetries + 1
        /\ Len(u[c].waits) <= maxRetries
        /\ u[c].pc \in {"zoneWait", "recWait"} => Len(u[c].tries) <= maxRetries
        /\ u[c].pc \in {"zoneLookup", "list", "create", "update"} =>
               Len(u[c].tries) <= maxRetries
        /\ Finished(c) =>
               /\ Len(u[c].last.tries) <= maxRetries + 1
               /\ Len(u[c].last.waits) <= maxRetries
               /\ (Len(u[c].last.tries) = maxRetries + 1
                     /\ ~u[c].last.tries[maxRetries + 1]) =>
                      /\ ~u[c].last.ok
                      /\ u[c].last.err = "retries exhausted"
                      /\ Len(u[c].last.waits) = maxRetries

\* a zone-id lookup that failed four times in a row
C8_Witness ==
    \E c \in Callers :
        /\ Finished(c)
        /\ u[c].last.kind = "zone"
        /\ u[c].last.tries = <<FALSE, FALSE, FALSE, FALSE>>
        /\ ~u[c].last.ok

\* C9: once UpdateIP has returned, a record whose reconciliation failed
\* after exhausting its retries has exactly one outcome in the audit sink, a
\* failure, and the invocation attempted every other record of that zone and
\* the zone-id lookup of every zone of every account with a non-empty
\* credential.
C9_FailureDoesNotAbort ==
    \A c \in Callers :
        Returned(c) =>
            \A p \in Credentialed(u[c].accounts) :
                LET domain == DomainAt(u[c].accounts, p)
                    rows == OutcomesOf(c, u[c].call, domain)
                IN  (\E k \in rows : ~dnsUpdates[k].success
                                      /\ dnsUpdates[k].err = "retries exhausted") =>
                        /\ Cardinality(rows) = 1
                        /\ \A q \in Credentialed(u[c].accounts) :
                             /\ [kind |-> "zone",
                                 name |-> u[c].accounts[q[1]].Zones[q[2]].ZoneName]
                                    \in u[c].attempted
                             /\ (q[1] = p[1] /\ q[2] = p[2]) =>
                                    [kind |-> "record",
                                     name |-> DomainAt(u[c].accounts, q)]
                                       \in u[c].attempted

\* an invocation whose first record failed after four attempts and whose
\* later records, in the same zone and in another zone, were reconciled
C9_Witness ==
    \E c \in Callers :
        /\ Returned(c)
        /\ Len(dnsUpdates) = 3
        /\ ~dnsUpdates[1].success
        /\ dnsUpdates[1].err = "retries exhausted"
        /\ dnsUpdates[2].success
        /\ dnsUpdates[3].success

\* C10 as stated: once UpdateIP has returned, every record of every account
\* with a non-empty credential either holds the target address or has a
\* failure outcome of this invocation in the audit sink.
C10_EveryMissHasFailureOutcome ==
    \A c \in Callers :
        Returned(c) =>
            \A p \in Credentialed(u[c].accounts) :
                LET domain == DomainAt(u[c].accounts, p)
                IN  \/ remote[domain].Content = u[c].ip
                    \/ \E k \in OutcomesOf(c, u[c].call, domain) : ~dnsUpdates[k].success

HistoryThisCycle == m.hist

\* C1: in every iteration of monitorIP at most one history entry is appended
\* and UpdateIP is invoked at most once.  When the loop reaches its wait
\* after a successful discovery: if the address differs from the lastIP the
\* iteration started with (the empty lastIP of a first observation
\* included), exactly one history entry was appended, holding that address,
\* UpdateIP was invoked exactly once, with that address, and lastIP is that
\* address; if the address equals lastIP, no entry was appended and UpdateIP
\* was not invoked.
C1_ChangeHandledOnce ==
    /\ HistoryThisCycle <= 1
    /\ Len(m.upd) <= 1
    /\ m.pc = "wait" =>
        /\ m.currentIP # ""
        /\ srv.CurrentIP = m.currentIP
        /\ (m.currentIP # m.prevLast) =>
               /\ HistoryThisCycle = 1
               /\ ipHistory[Len(ipHistory)].ip = m.currentIP
               /\ m.upd = <<m.currentIP>>
               /\ u["monitor"].ip = m.currentIP
               /\ Returned("monitor")
               /\ m.lastIP = m.currentIP
        /\ (m.currentIP = m.prevLast) =>
               /\ HistoryThisCycle = 0
               /\ m.upd = <<>>
               /\ m.lastIP = m.prevLast

\* the second iteration waits after an unchanged address, the first one
\* having handled a change from the address the history was seeded with
C1_Witness ==
    /\ m.pc = "wait"
    /\ m.cycle = 2
    /\ m.currentIP = m.prevLast
    /\ m.upd = <<>>
    /\ Len(ipHistory) = 2
    /\ ipHistory[1].ip # ipHistory[2].ip
    /\ u["monitor"].call = 1

\* C2 as stated: when the loop reaches its wait after handling a change, an
\* ip_change event carrying the new address and its source has been handed
\* to the hub during this iteration.
C2_ChangeIsBroadcast ==
    (m.pc = "wait" /\ m.changed) =>
        \E k \in (m.hubMark + 1)..Len(hubIn) :
            hubIn[k] = BroadcastIPChange(m.currentIP, m.source)

(***************************************************************************)
(* Properties of the event hub, checked under SpecHub.                     *)
(***************************************************************************)
\* C11: every iteration of the dispatch loop handles one registered
\* subscriber without waiting: if its queue holds sendCap = 256 messages the
\* queue is closed and the subscriber leaves the registry in that iteration,
\* otherwise the event is appended to its queue and it stays registered; no
\* other subscriber is touched.  While subscribers are left the next
\* iteration can always be taken, and the loop ends once none is left.
C11_FullSubscriberEvicted ==
    /\ [][(hub.pc = "dispatch" /\ hub'.pending # hub.pending /\ hub'.pc = "dispatch") =>
            \E c \in hub.pending :
                /\ hub'.pending = hub.pending \ {c}
                /\ IF Len(subs[c].send) >= sendCap
                   THEN /\ subs'[c].closed
                        /\ c \notin hub'.clients
                        /\ subs'[c].send = subs[c].send
                   ELSE /\ subs'[c].send = Append(subs[c].send, hub.msg)
                        /\ ~subs'[c].closed
                        /\ c \in hub'.clients
                /\ \A d \in Subscribers \ {c} :
                     /\ subs'[d] = subs[d]
                     /\ (d \in hub'.clients) = (d \in hub.clients)]_vars
    /\ []((hub.pc = "dispatch" /\ hub.pending # {}) => ENABLED HubDispatchOne)
    /\ []((hub.pc = "dispatch" /\ hub.pending = {}) => ENABLED HubDispatchDone)
    /\ [](hub.pc = "select" => hub.pending = {})

\* a dispatch that has evicted a subscriber with a full queue and enqueued
\* the event for another one
C11_Witness ==
    /\ hub.pc = "dispatch"
    /\ hub.pending = {}
    /\ \E c, d \in Subscribers :
        /\ subs[c].closed
        /\ c \notin hub.clients
        /\ subs[c].reader = "running"
        /\ Len(subs[c].send) = sendCap
        /\ d \in hub.clients
        /\ Len(subs[d].send) > 0
        /\ subs[d].send[Len(subs[d].send)] = hub.msg

\* C12: Hub.Broadcast can be taken in every state of the hub and of the
\* subscribers, and it is one step: with Run waiting in its select the event
\* is handed to the dispatch loop, otherwise the event is dropped and the hub
\* is left as it was; no subscriber is touched by the call.
C12_BroadcastNeverBlocks ==
    /\ [](Len(hubIn) < MaxBroadcasts => ENABLED HubBroadcast)
    /\ [][Len(hubIn') > Len(hubIn) =>
            /\ subs' = subs
            /\ IF hub.pc = "select"
               THEN /\ hub'.pc = "dispatch"
                    /\ hub'.msg = hubIn'[Len(hubIn')]
                    /\ hub'.pending = hub.clients
                    /\ hub'.clients = hub.clients
                    /\ hub'.dropped = hub.dropped
               ELSE hub' = [hub EXCEPT !.dropped = @ + 1]]_vars

\* an event dropped because the dispatch loop was busy with an earlier one,
\* a subscriber with a full queue being registered
C12_Witness ==
    /\ hub.dropped = 1
    /\ Len(hubIn) = 2
    /\ hub.pc = "dispatch"
    /\ hub.msg = hubIn[1]
    /\ \E c \in hub.clients : Len(subs[c].send) = sendCap

\* C13: while monitorIP waits with a configuration-change signal pending,
\* the signal case of its select can be taken, whether or not the interval
\* has elapsed; taking it consumes the signal and leads to the top of the
\* loop with the timer as it was, and from there the next check starts.
C13_SignalEndsWait ==
    /\ []((m.pc = "wait" /\ cfgChan > 0) => ENABLED MonConfigSignal)
    /\ [][(m.pc = "wait" /\ cfgChan' < cfgChan) =>
            /\ m'.pc = "top"
            /\ m'.woke = "signal"
            /\ m'.timerDue = m.timerDue
            /\ cfgChan' = 0]_vars
    /\ []((m.pc = "top" /\ m.cycle < MaxCycles) => ENABLED MonTop)

\* the second check has started after a wait that handleUpdateConfig's
\* signal, posted during that wait, ended before the interval had elapsed
C13_Witness ==
    /\ m.pc = "getip"
    /\ m.cycle = 2
    /\ m.woke = "signal"
    /\ ~m.timerDue
    /\ sigLog.at = "wait"
    /\ cfgChan = 0

\* C14: with stored history monitorIP starts its loop with lastIP equal to
\* the address of the newest entry, and a first cycle that finds this address
\* goes straight to its wait: no history entry is appended, UpdateIP is not
\* invoked, no DNS outcome is recorded and no event is handed to the hub.
C14_SeededStartIsQuiet ==
    /\ (m.pc = "top" /\ m.cycle = 0) =>
          m.lastIP = (IF ipHistory = <<>> THEN "" ELSE ipHistory[Len(ipHistory)].ip)
    /\ (/\ m.cycle = 1
        /\ m.pc \in {"history", "update", "updating", "wait"}
        /\ m.prevLast # ""
        /\ m.currentIP = m.prevLast) =>
          /\ m.pc = "wait"
          /\ m.hist = 0
          /\ ipHistory[Len(ipHistory)].ip = m.prevLast
          /\ m.upd = <<>>
          /\ u["monitor"].call = 0
          /\ dnsUpdates = <<>>
          /\ hubIn = <<>>

\* started with two history entries, the first cycle has found the address
\* of the newer one, published it, and waits without having acted on it
C14_Witness ==
    /\ m.cycle = 1
    /\ m.pc = "wait"
    /\ Len(ipHistory) = 2
    /\ ipHistory[1].ip # ipHistory[2].ip
    /\ m.currentIP = ipHistory[2].ip
    /\ srv.CurrentIP = m.currentIP
    /\ m.lastIP = m.currentIP
    /\ u["monitor"].call = 0
    /\ \E name \in Names : remote[name] # NoRecord /\ remote[name].Content # m.currentIP

\* C15: whenever monitorIP waits after a cycle whose address came from the
\* stun provider the interval it waits is at least 30 s, and at least 1 s
\* after a cycle whose address came from the router_ssh provider.
C15_WaitRespectsActiveProviderMinimum ==
    m.pc = "wait" =>
        /\ m.source = "STUN" => m.checkInterval >= 30
        /\ m.source = "ROUTER_SSH" => m.checkInterval >= 1

\* C16: the address and the source a reader finds in the server at any
\* moment, once both are set, are those of one observation of monitorIP:
\* of its current one or of the one before.
C16_AddressAndSourceOfOneObservation ==
    (srv.CurrentIP # "" /\ srv.CurrentSource # "") =>
        [ip |-> srv.CurrentIP, source |-> srv.CurrentSource] \in
            {[ip |-> m.currentIP, source |-> m.source], m.prevObs}

\* C17: every step that changes the server's current address, current
\* source or last-check time is a step of monitorIP.
C17_OnlySchedulerWrites ==
    [][srv' # srv => m'.pc # m.pc]_vars

\* C18: ConfigUpdateChan never holds more than one signal, and it holds one
\* exactly when a signal has been posted since the last receive, however
\* many were posted; a post can be made in every state and is one step that
\* leaves a signal pending without moving monitorIP; the receive is taken
\* from the wait, empties the channel and leads to the top of the loop.
C18_SignalIsSingleSlot ==
    /\ [](cfgChan \in 0..1)
    /\ [](cfgChan = 1 <=> sigLog.posted > 0)
    /\ [](sigLog.changesLeft > 0 => ENABLED NotifyConfigUpdate)
    /\ [][sigLog'.posted > sigLog.posted => (cfgChan' = 1 /\ m' = m)]_vars
    /\ [][cfgChan' < cfgChan =>
            (m.pc = "wait" /\ m'.pc = "top" /\ cfgChan' = 0 /\ sigLog'.posted = 0)]_vars

\* every signal of the run was posted before the first wait was left, the
\* first of them while monitorIP was busy, and that wait, ended by the
\* signal, has consumed them all
C18_Witness ==
    /\ sigLog.changesLeft = 0
    /\ sigLog.at = "busy"
    /\ sigLog.posted = 0
    /\ cfgChan = 0
    /\ m.cycle = 1
    /\ m.pc = "top"
    /\ m.woke = "signal"

\* C19: every step that replaces the configuration in memory leaves a
\* configuration-change signal pending for monitorIP.
C19_ReplacementPostsSignal ==
    [][cfg' # cfg => cfgChan' = 1]_vars

\* C20: in a cycle of monitorIP the provider list GetIP went through and the
\* account list UpdateIP works on are those of the configuration snapshot
\* the cycle computed its interval from.
C20_CycleUsesOneSnapshot ==
    /\ m.pc \in {"setip", "setsource", "history", "update", "updating"} =>
          m.provs = m.cfg.IPProviders
    /\ m.pc = "updating" => u["monitor"].accounts = m.cfg.CloudflareAccounts

\* the names a configuration lets UpdateIP reconcile: r.zone for every record
\* r of a zone of a credentialed account, "@" standing for the zone itself
Targets(accounts) ==
    {IF accounts[p[1]].Zones[p[2]].Records[p[3]] = "@"
     THEN accounts[p[1]].Zones[p[2]].ZoneName
     ELSE accounts[p[1]].Zones[p[2]].Records[p[3]] \o "." \o accounts[p[1]].Zones[p[2]].ZoneName :
        p \in Credentialed(accounts)}

\* C21: every create or update call UpdateIP issues, and every change of a
\* remote record, is at one of the names of the snapshot the invocation
\* read at its start.
C21_OnlyConfiguredNames ==
    /\ [][\A c \in Callers :
            Len(u'[c].calls) > Len(u[c].calls) =>
                u'[c].calls[Len(u'[c].calls)].name \in Targets(u[c].accounts)]_vars
    /\ [][\A name \in Names :
            remote'[name] # remote[name] =>
                \E c \in Callers : /\ u[c].pc \in {"create", "update"}
                                    /\ name \in Targets(u[c].accounts)]_vars

\* an invocation over three accounts has returned: it has changed the record
\* of the first and of the third account and left the name of the account
\* without credential alone
C21_Witness ==
    \E c \in Callers :
        /\ Returned(c)
        /\ Len(u[c].accounts) = 3
        /\ remote["example.com"] # u[c].remote0["example.com"]
        /\ remote["*.lab.example.io"] # u[c].remote0["*.lab.example.io"]
        /\ remote["example.net"] = NoRecord

\* C22: a configuration that fails validation never becomes the in-memory
\* or the stored configuration: the request that carries it is refused and
\* changes neither of them, posts no signal, starts no reconciliation, and
\* every snapshot monitorIP holds has passed ValidateConfig.
C22_InvalidConfigRejected ==
    /\ [](ValidateConfig(cfg) /\ ValidateConfig(saved) /\ ValidateConfig(m.cfg))
    /\ [][sigLog'.rejected > sigLog.rejected =>
            /\ sigLog'.posted = sigLog.posted
            /\ UNCHANGED <<cfg, saved, cfgChan, h, m, srv, u, errorLogs>>]_vars

\* a request was refused while monitorIP was waiting: the configuration is
\* the one the loop read, no signal is pending, no goroutine was started
C22_Witness ==
    /\ sigLog.rejected = 1
    /\ m.pc = "wait"
    /\ m.cycle >= 1
    /\ cfg = m.cfg
    /\ saved = cfg
    /\ cfgChan = 0
    /\ h["config"].pc = "off"

\* C23: a cycle whose discovery fails changes neither the current address
\* nor its source nor lastIP, appends no history row and does not enter
\* UpdateIP: no step into, during or out of the cooldown touches them.
C23_FailedCycleKeepsState ==
    /\ [](m.pc = "cooldown" =>
            /\ m.lastIP = m.prevLast
            /\ m.hist = 0
            /\ m.upd = <<>>)
    /\ [][(m'.pc = "cooldown" \/ m.pc = "cooldown") =>
            /\ srv'.CurrentIP = srv.CurrentIP
            /\ srv'.CurrentSource = srv.CurrentSource
            /\ m'.lastIP = m.lastIP
            /\ UNCHANGED <<ipHistory, u, dnsUpdates, remote>>]_vars

\* the second cycle has failed after a first one that found an address: the
\* loop is past its cooldown and everything of the first cycle is in place
C23_Witness ==
    /\ m.pc = "top"
    /\ m.cycle = 2
    /\ Len(errorLogs) > 0
    /\ errorLogs[Len(errorLogs)] = [level |-> "error", cycle |-> 2]
    /\ srv.CurrentIP # ""
    /\ srv.CurrentIP = m.lastIP
    /\ srv.LastCheckTime = 2

\* the enabled entries of the configuration GetIP ran over
SelEnabled == {i \in 1..Len(cfg.IPProviders) : cfg.IPProviders[i].Enabled}

\* GetIP ran over exactly two enabled providers, both of a recognised kind,
\* of which the first failed and the second returned an address
SelSecondAnswers ==
    /\ SelCalled
    /\ Cardinality(SelEnabled) = 2
    /\ SelEnabled = SelAttemptable
    /\ selOuts[SelNth(SelEnabled, 1)].err # ""
    /\ selOuts[SelNth(SelEnabled, 2)].err = ""

\* C24 as stated: with two enabled providers of which the first fails and
\* the second returns an address, GetIP returns that address without an
\* error, the first provider's failure is in the diagnostics, and the source
\* label is the second provider's configured kind.
C24_SourceIsConfiguredKind ==
    SelSecondAnswers =>
        LET first == SelNth(SelEnabled, 1)
            second == SelNth(SelEnabled, 2)
        IN  /\ selRes.ip = selOuts[second].ip
            /\ selRes.err = ""
            /\ selRes.errors = <<ErrMsg(cfg.IPProviders[first], selOuts[first].err)>>
            /\ selRes.source = cfg.IPProviders[second].Type

\* C24 as the code has it: the source label is the one the second provider
\* reported, and its configured kind only when it reported none.
C24_SourceIsReportedLabel ==
    SelSecondAnswers =>
        LET first == SelNth(SelEnabled, 1)
            second == SelNth(SelEnabled, 2)
        IN  /\ selRes.ip = selOuts[second].ip
            /\ selRes.err = ""
            /\ selRes.errors = <<ErrMsg(cfg.IPProviders[first], selOuts[first].err)>>
            /\ selRes.source = IF selOuts[second].source = ""
                               THEN cfg.IPProviders[second].Type
                               ELSE selOuts[second].source

\* a router provider failed and the STUN provider declared after it answered
C24_Witness ==
    /\ SelSecondAnswers
    /\ cfg.IPProviders[SelNth(SelEnabled, 1)].Type = "router_ssh"
    /\ cfg.IPProviders[SelNth(SelEnabled, 2)].Type = "stun"
    /\ selRes.ip = "203.0.113.2"
    /\ selRes.source = "STUN"
    /\ Len(selRes.errors) = 1

C26_LastCheckBeforeDiscovery ==
    /\ [](m.pc \in {"getip", "cooldown", "setip"} =>
            (m.cycle >= 1 /\ srv.LastCheckTime = m.cycle))
    /\ [][(m.pc = "getip" /\ m'.pc # "getip") =>
            (srv.LastCheckTime = m.cycle /\ srv'.LastCheckTime = m.cycle)]_vars

\* discovery has failed in the second cycle, which has left its timestamp
C26_Witness ==
    /\ m.pc = "cooldown"
    /\ m.cycle = 2
    /\ srv.LastCheckTime = 2
    /\ srv.CurrentIP # ""

\* C27: after every successful discovery the server's address and source are
\* the ones discovered, also when the address equals lastIP; in that case
\* the cycle goes to its wait with the new source set, no history row
\* appended and UpdateIP not entered.
C27_SourceFollowsEveryDiscovery ==
    /\ [](m.pc \in {"history", "update", "updating", "wait"} =>
            (srv.CurrentIP = m.currentIP /\ srv.CurrentSource = m.source))
    /\ [][(m.pc = "setsource" /\ m.currentIP = m.lastIP) =>
            /\ m'.pc = "wait"
            /\ srv'.CurrentIP = m.currentIP
            /\ srv'.CurrentSource = m.source
            /\ m'.lastIP = m.lastIP
            /\ UNCHANGED <<ipHistory, u, dnsUpdates, remote>>]_vars

\* in the second cycle another provider has answered with the address of the
\* first cycle: the source has changed, the history has its one row
C27_Witness ==
    /\ m.pc = "wait"
    /\ m.cycle = 2
    /\ ~m.changed
    /\ m.prevObs.ip = m.currentIP
    /\ m.prevObs.source = "ROUTER_SSH"
    /\ srv.CurrentSource = "STUN"
    /\ srv.CurrentIP = m.lastIP
    /\ Len(ipHistory) = 1
    /\ ipHistory[1].source = "ROUTER_SSH"

\* C28: a failed discovery appends one entry to error_logs, the loop sleeps
\* the fixed cooldown and goes back to the top of the loop without entering
\* its wait, and the cooldown is strictly shorter than the interval the
\* cycle computed from its configuration.
C28_CooldownShorterThanInterval ==
    /\ [](m.pc = "cooldown" => failureCooldown < m.checkInterval)
    /\ [][(m.pc = "getip" /\ m'.pc = "cooldown") =>
            errorLogs' = Append(errorLogs, [level |-> "error", cycle |-> m.cycle])]_vars
    /\ [][m.pc = "cooldown" => (m'.pc = "top" /\ errorLogs' = errorLogs)]_vars

\* C29: the signal is received only from the wait.  A signal posted while
\* monitorIP is checking, reconciling or in its cooldown moves nothing of
\* monitorIP and stays in the channel until monitorIP waits; the wait that
\* finds it can end only by receiving it, and does so before any time of the
\* interval has passed.
C29_SignalWaitsForTheWait ==
    /\ [][cfgChan' < cfgChan => (m.pc = "wait" /\ m'.pc = "top")]_vars
    /\ [][(sigLog'.posted > sigLog.posted /\ m.pc # "wait") =>
            (m' = m /\ cfgChan' = 1)]_vars
    /\ [][(m.pc # "wait" /\ cfgChan = 1) => cfgChan' = 1]_vars
    /\ [][(m.pc # "wait" /\ m'.pc = "wait" /\ cfgChan' = 1) => ~m'.timerDue]_vars
    /\ []((m.pc = "wait" /\ cfgChan = 1 /\ ~m.timerDue) =>
            /\ ENABLED MonConfigSignal
            /\ ~ENABLED MonTimerFired
            /\ ~ENABLED MonTimeElapses)
    /\ [][(m.pc = "wait" /\ cfgChan = 1 /\ ~m.timerDue /\ m'.pc # "wait") =>
            (m'.woke = "signal" /\ cfgChan' = 0)]_vars

\* the first cycle failed and slept its cooldown, the second found an
\* address; a signal posted before the wait of the second cycle was
\* received by that wait with the timer not yet due
C29_Witness ==
    /\ m.pc = "top"
    /\ m.cycle = 2
    /\ m.woke = "signal"
    /\ ~m.timerDue
    /\ sigLog.at = "busy"
    /\ cfgChan = 0
    /\ Len(errorLogs) = 1
    /\ errorLogs[1] = [level |-> "error", cycle |-> 1]

\* the record positions of the accounts with an empty credential
Uncredentialed(accounts) ==
    {p \in RecordPositions(accounts) : accounts[p[1]].APIToken = ""}

\* C30: for an account with an empty credential UpdateIP enters no zone
\* lookup and no record, so issues no list, create or update call, writes no
\* row to dns_updates and changes no remote record; the zones of the
\* accounts with a credential are all entered, those declared after the
\* skipped account included.
C30_EmptyCredentialSkipped ==
    /\ [](\A c \in Callers : \A p \in Uncredentialed(u[c].accounts) :
            /\ [kind |-> "zone", name |-> u[c].accounts[p[1]].Zones[p[2]].ZoneName]
                    \notin u[c].attempted
            /\ [kind |-> "record", name |-> DomainAt(u[c].accounts, p)] \notin u[c].attempted
            /\ u[c].pc # "idle" => u[c].a # p[1]
            /\ \A k \in 1..Len(dnsUpdates) :
                    dnsUpdates[k].caller = c =>
                        /\ dnsUpdates[k].account # u[c].accounts[p[1]].Name
                        /\ dnsUpdates[k].domain # DomainAt(u[c].accounts, p)
            /\ remote[DomainAt(u[c].accounts, p)] = u[c].remote0[DomainAt(u[c].accounts, p)])
    /\ [](\A c \in Callers : Returned(c) =>
            \A p \in Credentialed(u[c].accounts) :
                [kind |-> "zone", name |-> u[c].accounts[p[1]].Zones[p[2]].ZoneName]
                    \in u[c].attempted)

\* an invocation over three accounts, the second without credential, has
\* returned: the first and the third account have their rows, the second
\* has none and its name holds no record
C30_Witness ==
    \E c \in Callers :
        /\ Returned(c)
        /\ Len(u[c].accounts) = 3
        /\ u[c].accounts[2].APIToken = ""
        /\ \E k \in 1..Len(dnsUpdates) : dnsUpdates[k].account = "home" /\ dnsUpdates[k].success
        /\ \E k \in 1..Len(dnsUpdates) : dnsUpdates[k].account = "work" /\ dnsUpdates[k].success
        /\ \A k \in 1..Len(dnsUpdates) : dnsUpdates[k].account # "off"
        /\ remote["example.net"] = NoRecord

\* the step in which caller c's updateRecord returns nil straight from its
\* listing: the record found already holds the target address
SkipStep(c) ==
    /\ u[c].pc = "list"
    /\ u'[c].last # u[c].last
    /\ u'[c].last.ok

\* C31 as stated: the skip branch writes no row to dns_updates.
C31_SkipRecordsNothing ==
    [][\A c \in Callers : SkipStep(c) => dnsUpdates' = dnsUpdates]_vars

\* C31 as the code has it: the skip branch is taken exactly for a record
\* whose remote content equals the target address, it issues no create and
\* no update call and changes no remote record, and UpdateIP writes one
\* success row for the record.
C31_SkipRecordsSuccess ==
    [][\A c \in Callers : SkipStep(c) =>
            /\ remote[CurDomain(u[c])].ID # ""
            /\ remote[CurDomain(u[c])].Content = u[c].ip
            /\ u'[c].last.calls = u[c].calls
            /\ remote' = remote
            /\ dnsUpdates' = Append(dnsUpdates,
                    [caller |-> c, call |-> u[c].call,
                     account |-> u[c].accounts[u[c].a].Name, ip |-> u[c].ip,
                     domain |-> CurDomain(u[c]), success |-> TRUE, err |-> ""])]_vars

\* a record that held the target address before the invocation was listed
\* once, no create or update call was made, and its success row is the
\* newest of dns_updates
C31_Witness ==
    \E c \in Callers :
        /\ u[c].last.kind = "record"
        /\ u[c].last.ok
        /\ u[c].last.calls = <<>>
        /\ u[c].last.tries = <<TRUE>>
        /\ u[c].remote0[u[c].last.name].Content = u[c].ip
        /\ Len(dnsUpdates) > 0
        /\ dnsUpdates[Len(dnsUpdates)].domain = u[c].last.name
        /\ dnsUpdates[Len(dnsUpdates)].success

(***************************************************************************)
(* Teardown of a subscriber, checked under SpecHubFair.                    *)
(***************************************************************************)
\* one of the two flows of a connected subscriber has left its loop
FlowEnded(c) ==
    /\ subs[c].conn # "none"
    /\ subs[c].reader # "running" \/ subs[c].writer = "done"

\* the subscriber is gone: connection closed, not in h.clients, send closed,
\* both flows returned
TornDown(c) ==
    /\ subs[c].conn = "closed"
    /\ c \notin hub.clients
    /\ subs[c].closed
    /\ subs[c].reader = "done"
    /\ subs[c].writer = "done"

\* C32: for every subscriber, once its reader has left its loop (read error)
\* or its writer has returned (write error, or queue closed and drained), the
\* subscriber is eventually torn down: connection closed, removed from the
\* registry, queue closed, and neither flow still running or blocked.
C32_FlowEndLeadsToTeardown ==
    \A c \in Subscribers : FlowEnded(c) ~> TornDown(c)

\* a subscriber is torn down after one failed write and no successful one,
\* with the rest of its backlog left in its closed queue
C32_Witness ==
    \E c \in Subscribers :
        /\ TornDown(c)
        /\ subs[c].written = 0
        /\ Len(subs[c].send) = sendCap - 2

(***************************************************************************)
(* The deadline of the retried operations, checked under SpecDNS.          *)
(***************************************************************************)
\* caller c's invocation takes a step that stays in the same zone
SameZoneStep(c) ==
    /\ u'[c] # u[c]
    /\ u[c].pc # "idle" /\ u'[c].pc # "idle"
    /\ u'[c].call = u[c].call
    /\ <<u'[c].a, u'[c].z>> = <<u[c].a, u[c].z>>

\* caller c's invocation enters a zone
ZoneEntryStep(c) ==
    /\ u'[c].pc = "zoneLookup"
    /\ u[c].pc = "idle" \/ <<u'[c].a, u'[c].z>> # <<u[c].a, u[c].z>>

\* C33 as stated: one deadline bounds all calls and retries of one UpdateIP
\* invocation: once it has expired it stays expired until UpdateIP returns.
C33_OneDeadlinePerInvocation ==
    [][\A c \in Callers :
         (u[c].ctxDone /\ u'[c].pc # "idle" /\ u'[c].call = u[c].call) => u'[c].ctxDone]_vars

\* C33 amended: a backoff wait that finds the deadline expired ends the
\* retried operation at once with the deadline error and no further attempt;
\* the deadline is one per zone: within a zone it stays expired, no record is
\* listed, created or updated after it (a zone lookup, which takes no
\* context, may still succeed), and every zone entered starts with a deadline
\* that has not expired.
C33_DeadlinePerZone ==
    [][\A c \in Callers :
         /\ (u[c].pc \in {"zoneWait", "recWait"} /\ u[c].ctxDone /\ u'[c] # u[c]) =>
                /\ u'[c].last.call = u[c].call
                /\ ~u'[c].last.ok
                /\ u'[c].last.err = "deadline"
                /\ u'[c].last.tries = u[c].tries
                /\ u'[c].last.waits = u[c].waits
                /\ u'[c].pc \notin {"zoneWait", "recWait"}
         /\ (u[c].ctxDone /\ SameZoneStep(c)) =>
                /\ u'[c].ctxDone
                /\ remote' = remote
                /\ (u'[c].last.ok /\ u'[c].last.kind = "record") => u'[c].last = u[c].last
         /\ ZoneEntryStep(c) => ~u'[c].ctxDone]_vars

\* an invocation whose first zone ran into its deadline (a failure outcome
\* "deadline" is in the audit sink) has since changed a record of a later
\* zone with a call to the provider
C33_Witness ==
    \E c \in Callers :
        /\ u[c].last.call = u[c].call
        /\ u[c].last.kind = "record" /\ u[c].last.ok /\ u[c].last.calls # <<>>
        /\ \E k \in 1..Len(dnsUpdates) :
            /\ dnsUpdates[k].caller = c /\ dnsUpdates[k].call = u[c].call
            /\ dnsUpdates[k].err = "deadline"
            /\ dnsUpdates[k].domain # u[c].last.name

Placed(c) == SelectSeq(subs[c].send, LAMBDA x : x # Backlog)

\* the events Run has accepted and already offered to c
Offered(c) ==
    IF c \in hub.pending THEN SubSeq(hubIn, 1, Len(hubIn) - 1) ELSE hubIn

\* a step of the hub as the claim describes it: an accepted event is to be
\* offered to every registered subscriber; a queue grows only by Run
\* appending the event it is dispatching, once per subscriber and event; a
\* registered subscriber is passed over only by being evicted; and Run
\* accepts the next event only after all were visited
DispatchStep ==
    /\ (hub.pc = "select" /\ hub'.pc = "dispatch") =>
            (hub'.pending = hub.clients /\ hub'.msg = hubIn'[Len(hubIn')])
    /\ (hub.pc = "dispatch" /\ hub'.pc = "dispatch") => hub'.msg = hub.msg
    /\ (hub.pc = "dispatch" /\ hub'.pc = "select") => hub.pending = {}
    /\ \A c \in Subscribers :
        /\ (subs[c].conn # "none" /\ Len(subs'[c].send) > Len(subs[c].send)) =>
                /\ c \in hub.pending /\ c \notin hub'.pending
                /\ subs'[c].send = Append(subs[c].send, hub.msg)
        /\ (c \in hub.pending /\ c \notin hub'.pending) =>
                \/ subs'[c].send = Append(subs[c].send, hub.msg)
                \/ /\ Len(subs[c].send) = sendCap
                   /\ c \notin hub'.clients /\ subs'[c].closed

\* C36: what Run places in a subscriber's queue is the sequence of events it
\* accepted while the subscriber was registered, in order, each once.  As a
\* state property (runs in which Broadcast dropped nothing, so that hubIn is
\* the accepted sequence): the events in the queue of a registered subscriber
\* are a tail of the accepted sequence.  As a step property: every step is a
\* DispatchStep.
C36_QueueIsAcceptedSequence ==
    /\ [](\A c \in hub.clients :
             hub.dropped = 0 =>
                \E k \in 1..(Len(Offered(c)) + 1) :
                    Placed(c) = SubSeq(Offered(c), k, Len(Offered(c))))
    /\ [][DispatchStep]_vars

\* a subscriber that registered after the first event was accepted holds
\* exactly the second event; another holds both, in order
C36_Witness ==
    /\ hub.pc = "select" /\ hub.dropped = 0
    /\ Len(hubIn) = 2 /\ hubIn[1] # hubIn[2]
    /\ \E c, d \in hub.clients :
        /\ subs[c].send = <<hubIn[2]>> /\ subs[c].written = 0
        /\ subs[d].send = hubIn

(***************************************************************************)
(* Reconciliations that overlap, checked under SpecSched.                  *)
(***************************************************************************)
\* no reconciliation is running or about to start, monitorIP is in its wait
\* and every recorded outcome is a success
AllReconciled ==
    /\ \A c \in Callers : u[c].pc = "idle"
    /\ \A c \in Handlers : h[c].pc = "off"
    /\ m.pc = "wait"
    /\ \A k \in 1..Len(dnsUpdates) : dnsUpdates[k].success

\* C37 as stated: once the reconciliations started by monitorIP and by a
\* configuration update have all finished with every call succeeding, and
\* monitorIP's own last reconciliation was for the address it observed most
\* recently under the configuration in force, every configured record holds
\* that address: no reconciliation for an older address has left its address
\* in a record.  (The goroutine of the configuration update worked with an
\* address monitorIP had observed, and the server's current address is
\* monitorIP's.)
C37_LatestAddressWins ==
    ( /\ AllReconciled
      /\ u["monitor"].call >= 1
      /\ u["monitor"].ip = m.currentIP /\ m.lastIP = m.currentIP
      /\ srv.CurrentIP = m.currentIP
      /\ u["config"].call >= 1 => u["config"].ip \in {m.currentIP, m.prevObs.ip} \ {""}
      /\ u["monitor"].accounts = cfg.CloudflareAccounts )
    => \A p \in Credentialed(cfg.CloudflareAccounts) :
            remote[DomainAt(cfg.CloudflareAccounts, p)].Content = m.currentIP

(***************************************************************************)
(* A change cycle with a failed record, checked under SpecMonFail.         *)
(***************************************************************************)
\* the failure outcomes monitorIP's reconciliations have recorded
MonitorFailures ==
    {k \in 1..Len(dnsUpdates) : dnsUpdates[k].caller = "monitor" /\ ~dnsUpdates[k].success}

\* C38: when the reconciliation of a change cycle returns, lastIP becomes the
\* new address whether or not a record failed; UpdateIP is entered only in a
\* cycle whose address differs from lastIP, so a cycle that observes the
\* same address again ends without any reconciliation, failed records
\* included.
C38_FailedRecordNotRetried ==
    /\ [][(m.pc = "updating" /\ m'.pc # "updating") =>
                (m'.pc = "wait" /\ m'.lastIP = m.currentIP)]_vars
    /\ [][(u'["monitor"].call # u["monitor"].call) =>
                (m.currentIP # m.lastIP /\ m'.upd = <<m.currentIP>>)]_vars
    /\ []((m.pc = "wait" /\ m.currentIP = m.prevLast) =>
                (m.upd = <<>> /\ m.lastIP = m.prevLast /\ u["monitor"].call < m.cycle))

\* the first cycle's reconciliation failed for example.com after all its
\* attempts, lastIP was set all the same, and the second cycle, observing the
\* same address, has reached its wait without a reconciliation while the
\* record is still not at that address
C38_Witness ==
    /\ m.cycle = 2 /\ m.pc = "wait"
    /\ m.upd = <<>> /\ m.lastIP = m.currentIP
    /\ u["monitor"].call = 1
    /\ \E k \in MonitorFailures :
        /\ dnsUpdates[k].ip = m.lastIP
        /\ dnsUpdates[k].call = 1
        /\ remote[dnsUpdates[k].domain].Content # m.lastIP

(***************************************************************************)
(* What UpdateIP returns, checked under SpecSchedFail.                     *)
(***************************************************************************)
\* the failure outcomes the reconciliation of the configuration update has
\* recorded
ConfigFailures ==
    {k \in 1..Len(dnsUpdates) : dnsUpdates[k].caller = "config" /\ ~dnsUpdates[k].success}

\* C39: UpdateIP returns nil in every execution, also when a zone lookup or
\* a record failed after all attempts; so the goroutine of handleUpdateConfig
\* never takes its failure branch: after every reconciliation it made it
\* writes the "success" entry, and no "error" entry is written.
C39_UpdateIPReturnsNil ==
    /\ [](\A c \in Callers : Returned(c) => u[c].ret = "nil")
    /\ [](\A k \in 1..Len(errorLogs) : errorLogs[k].level # "error")
    /\ [][(h["config"].pc = "updating" /\ h'["config"].pc # "updating") =>
                /\ u["config"].pc = "idle"
                /\ errorLogs' = Append(errorLogs, [level |-> "success", cycle |-> m.cycle])]_vars

\* the reconciliation after a configuration update failed for a record after
\* all its attempts, returned, and the "success" entry was written
C39_Witness ==
    /\ h["config"].pc = "off"
    /\ Returned("config")
    /\ ConfigFailures # {}
    /\ Len(errorLogs) >= 1
    /\ errorLogs[Len(errorLogs)].level = "success"

(***************************************************************************)
(* The interval monitorIP waits, checked under SpecMon.                    *)
(***************************************************************************)
\* C40 as stated: for every non-empty ip_check that ValidateConfig accepts,
\* "1d" included, the interval monitorIP computes for its wait is the
\* duration validation parsed, raised to the minimum of the configured
\* providers; the default of 300 s is not put in its place.
C40_WaitIsValidatedInterval ==
    (m.pc = "wait" /\ m.cfg.IPCheck # NoInterval /\ ValidateConfig(m.cfg)) =>
        LET d == ParseExtendedDuration(m.cfg.IPCheck).d
            minInterval ==
                IF \E i \in 1..Len(m.cfg.IPProviders) :
                       /\ m.cfg.IPProviders[i].Enabled
                       /\ m.cfg.IPProviders[i].Type \in {"router_ssh", "interface"}
                THEN 1 ELSE 30
        IN  m.checkInterval = IF d < minInterval THEN minInterval ELSE d

====
